---- MODULE Spec2Model ----
(***************************************************************************)
(* A model of the trie-fs path trie (filesystem.go).                       *)
(*                                                                         *)
(* A Go string is a sequence of bytes; here a byte is a one-character      *)
(* string, so the path "/a/b" is <<"/", "a", "/", "b">>.  An *Entry is a   *)
(* record [Content, Path, Entries]; a nil *Entry (Trie.Root) is the empty  *)
(* sequence and a non-nil one a one-element sequence.  The Go code mutates *)
(* nodes in place; each function here returns the node as it is left by    *)
(* the call together with the returned value.  A *Content returned by the  *)
(* code is a record [cnt, ref]: ref is the position (child indices from    *)
(* the root, 1-based) of the node whose Content field the pointer refers   *)
(* to, or Fresh for a newly allocated Content.                             *)
(***************************************************************************)
EXTENDS Integers, Sequences, FiniteSets, TLC

----------------------------------------------------------------------------
(* Constants of filesystem.go *)

MIMEDriveDirectory == "application/chainsafe-files-directory"
MIMEDriveEntry == "application/chainsafe-files-entry"
MIMEOctetStream == "application/octet-stream"
MIMEReference == "application/chainsafe-files-reference"

SpecialPathSymbol == <<":">>
Separator == <<"/">>
SeparatorRune == "/"
DoubleSeparator == <<"/", "/">>

ErrNil == "nil"
ErrConflict == "ErrConflict"
ErrEmptyPath == "ErrEmptyPath"
ErrEmptyName == "ErrEmptyName"
ErrIllegalPathChars == "ErrIllegalPathChars"
ErrIllegalNameChars == "ErrIllegalNameChars"
ErrCantAddDirectory == "ErrCantAddDirectory"
ErrFileNotExist == "ErrFileNotExist"
ErrCantCreateRef == "ErrCantCreateRef"

----------------------------------------------------------------------------
(* package strings, unicode/utf8 and path/filepath, on byte sequences *)

HasPrefix(s, prefix) ==
    /\ Len(prefix) <= Len(s)
    /\ SubSeq(s, 1, Len(prefix)) = prefix

TrimPrefix(s, prefix) ==
    IF HasPrefix(s, prefix) THEN SubSeq(s, Len(prefix) + 1, Len(s)) ELSE s

\* strings.Index / strings.LastIndex for a one-byte separator: 0-based, -1 if absent
Index(s, b) ==
    IF \E i \in 1..Len(s) : s[i] = b
    THEN (CHOOSE i \in 1..Len(s) : s[i] = b /\ \A j \in 1..(i - 1) : s[j] # b) - 1
    ELSE -1

LastIndex(s, b) ==
    IF \E i \in 1..Len(s) : s[i] = b
    THEN (CHOOSE i \in 1..Len(s) : s[i] = b /\ \A j \in (i + 1)..Len(s) : s[j] # b) - 1
    ELSE -1

Contains(s, sub) ==
    \E i \in 0..(Len(s) - Len(sub)) : SubSeq(s, i + 1, i + Len(sub)) = sub

\* strings.ReplaceAll(s, "//", "/"): non-overlapping matches, left to right
RECURSIVE ReplaceAllDouble(_)
ReplaceAllDouble(s) ==
    IF Len(s) = 0 THEN s
    ELSE IF HasPrefix(s, DoubleSeparator)
         THEN Separator \o ReplaceAllDouble(SubSeq(s, 3, Len(s)))
         ELSE <<s[1]>> \o ReplaceAllDouble(Tail(s))

\* strings.Join(parts, "/")
RECURSIVE Join(_)
Join(parts) ==
    IF Len(parts) = 0 THEN <<>>
    ELSE IF Len(parts) = 1 THEN parts[1]
    ELSE parts[1] \o Separator \o Join(Tail(parts))

\* UTF-8 as far as the code looks at it: "C3" is the lead byte of a two-byte
\* rune, "A0" and "A1" are continuation bytes, every other byte is ASCII.
LeadBytes == {"C3"}
ContBytes == {"A0", "A1"}

\* utf8.RuneStart
RuneStart(b) == b \notin ContBytes

\* utf8.DecodeRuneInString: the first rune, RuneError for an empty or invalid start
RuneError == <<"RuneError">>
DecodeRuneInString(s) ==
    IF Len(s) = 0 THEN RuneError
    ELSE IF s[1] \in LeadBytes
         THEN IF Len(s) >= 2 /\ s[2] \in ContBytes THEN <<s[1], s[2]>> ELSE RuneError
         ELSE IF s[1] \in ContBytes THEN RuneError ELSE <<s[1]>>

\* strip trailing separators (filepath.Base, first loop)
RECURSIVE StripTrailing(_)
StripTrailing(s) ==
    IF Len(s) > 0 /\ s[Len(s)] = SeparatorRune
    THEN StripTrailing(SubSeq(s, 1, Len(s) - 1))
    ELSE s

\* filepath.Base
Base(path) ==
    IF Len(path) = 0 THEN <<".">>
    ELSE LET p == StripTrailing(path)
             q == SubSeq(p, LastIndex(p, SeparatorRune) + 2, Len(p))
         IN  IF Len(q) = 0 THEN Separator ELSE q

----------------------------------------------------------------------------
(* Path utilities *)

RECURSIVE CollapseSeparators(_)
CollapseSeparators(path) ==
    IF Contains(path, DoubleSeparator)
    THEN CollapseSeparators(ReplaceAllDouble(path))
    ELSE path

\* CleanPath with one pass of strings.ReplaceAll in place of the loop
CleanPathOnce(path) ==
    IF Len(path) = 0 THEN path
    ELSE LET p1 == ReplaceAllDouble(path)
             p2 == IF p1[1] # SeparatorRune THEN Separator \o p1 ELSE p1
         IN  IF Len(p2) > 1 /\ p2[Len(p2)] = SeparatorRune
             THEN SubSeq(p2, 1, Len(p2) - 1)
             ELSE p2

CleanPath(path) ==
    IF Len(path) = 0 THEN path
    ELSE LET p1 == CollapseSeparators(path)
             p2 == IF p1[1] # SeparatorRune THEN Separator \o p1 ELSE p1
         IN  IF Len(p2) > 1 /\ p2[Len(p2)] = SeparatorRune
             THEN SubSeq(p2, 1, Len(p2) - 1)
             ELSE p2

JoinPath(paths) == CleanPath(Join(paths))

RECURSIVE MatchLen(_, _)
MatchLen(a, b) ==
    IF Len(a) > 0 /\ Len(b) > 0 /\ a[1] = b[1]
    THEN 1 + MatchLen(Tail(a), Tail(b))
    ELSE 0

RECURSIVE BackUp(_, _)
BackUp(a, i) ==
    IF i > 0 /\ i < Len(a) /\ ~RuneStart(a[i + 1]) THEN BackUp(a, i - 1) ELSE i

commonPrefix(a, b) == SubSeq(a, 1, BackUp(a, MatchLen(a, b)))

----------------------------------------------------------------------------
(* Content and Entry.  Entry.Meta is left out: no operation of the trie    *)
(* reads or writes it except Copy, which carries it along.                 *)

\* Content{} literal fields; a time.Time is modelled by its Unix() value
NewContent(name, cid, size, t, createdAt) ==
    IF t = MIMEDriveEntry
    THEN [Name |-> <<>>, CID |-> "", Type |-> t, Size |-> 0, Version |-> 0,
          CreatedAt |-> createdAt]
    ELSE [Name |-> name, CID |-> cid, Type |-> t, Size |-> size,
          Version |-> IF t = MIMEDriveDirectory THEN 0 ELSE 1,
          CreatedAt |-> createdAt]

NewEntry(path, cid, size, contentType, createdAt) ==
    IF contentType = MIMEDriveEntry
    THEN [Content |-> NewContent(<<>>, "", 0, MIMEDriveEntry, createdAt),
          Path |-> path,
          Entries |-> << [Content |-> NewContent(<<>>, "", 0, MIMEDriveEntry, createdAt),
                          Path |-> SpecialPathSymbol,
                          Entries |-> <<>>] >>]
    ELSE [Content |-> NewContent(Base(path), cid, size, contentType, createdAt),
          Path |-> path,
          Entries |-> <<>>]

IsEmptyFolder(entry) ==
    /\ entry.Content.Type = MIMEDriveEntry
    /\ Len(entry.Entries) = 1
    /\ entry.Entries[1].Path = SpecialPathSymbol

IsDirectory(c) == c.Type = MIMEDriveDirectory \/ c.Type = MIMEDriveEntry

\* Content.Validate: the error, and the content as the call leaves it
ContentValidate(c) ==
    IF Contains(c.Name, Separator) \/ Contains(c.Name, SpecialPathSymbol)
    THEN [err |-> ErrIllegalNameChars, cnt |-> c]
    ELSE [err |-> ErrNil,
          cnt |-> IF c.Type = "" THEN [c EXCEPT !.Type = MIMEOctetStream] ELSE c]

\* Entry.Validate without the check of the MIMEDriveDirectory type
ValidateNoTypeCheck(entry) ==
    IF entry.Content.Name = <<".">> /\ Len(entry.Path) = 0
    THEN [err |-> ErrEmptyPath, entry |-> entry]
    ELSE IF Contains(entry.Path, SpecialPathSymbol)
    THEN [err |-> ErrIllegalPathChars, entry |-> entry]
    ELSE IF IsEmptyFolder(entry) /\ Len(CleanPath(entry.Path)) = 0
    THEN [err |-> ErrEmptyName, entry |-> entry]
    ELSE LET v == ContentValidate(entry.Content)
         IN  [err |-> v.err, entry |-> [entry EXCEPT !.Content = v.cnt]]

\* Entry.Validate: the error, and the entry as the call leaves it
Validate(entry) ==
    IF entry.Content.Type = MIMEDriveDirectory
    THEN [err |-> ErrCantAddDirectory, entry |-> entry]
    ELSE IF entry.Content.Name = <<".">> /\ Len(entry.Path) = 0
    THEN [err |-> ErrEmptyPath, entry |-> entry]
    ELSE IF Contains(entry.Path, SpecialPathSymbol)
    THEN [err |-> ErrIllegalPathChars, entry |-> entry]
    ELSE IF IsEmptyFolder(entry) /\ Len(CleanPath(entry.Path)) = 0
    THEN [err |-> ErrEmptyName, entry |-> entry]
    ELSE LET v == ContentValidate(entry.Content)
         IN  [err |-> v.err, entry |-> [entry EXCEPT !.Content = v.cnt]]

\* Entry.trimPrefix: the new value of entry.Path
trimPrefix(path, prefix) ==
    LET p == TrimPrefix(path, prefix)
    IN  IF Len(p) = 0 THEN SpecialPathSymbol ELSE p

----------------------------------------------------------------------------
(* The list of created entries returned by AddFile *)

\* strings.Split(s, "/")
RECURSIVE Split(_)
Split(s) ==
    LET i == Index(s, SeparatorRune)
    IN  IF i < 0 THEN <<s>>
        ELSE <<SubSeq(s, 1, i)>> \o Split(SubSeq(s, i + 2, Len(s)))

RECURSIVE splitEntryFrom(_, _, _, _)
splitEntryFrom(entry, paths, i, currentPath) ==
    IF i > Len(paths) THEN <<>>
    ELSE IF paths[i] = <<>> THEN splitEntryFrom(entry, paths, i + 1, currentPath)
    ELSE LET cur == IF i = 1 THEN paths[i] ELSE currentPath \o Separator \o paths[i]
             cnt == IF IsDirectory(entry.Content) \/ i # Len(paths)
                    THEN NewContent(Base(cur), "", 0, MIMEDriveDirectory,
                                    entry.Content.CreatedAt)
                    ELSE NewContent(Base(cur), entry.Content.CID, entry.Content.Size,
                                    entry.Content.Type, entry.Content.CreatedAt)
         IN  <<[Content |-> cnt, Path |-> cur, Entries |-> <<>>]>>
                 \o splitEntryFrom(entry, paths, i + 1, cur)

splitEntry(entry) == splitEntryFrom(entry, Split(entry.Path), 1, <<>>)

fixEntries(entries, prefix) ==
    [i \in 1..Len(entries) |->
        LET path == prefix \o entries[i].Path
        IN  [Content |-> [entries[i].Content EXCEPT
                            !.Name = Base(path),
                            !.Type = IF @ = MIMEDriveEntry THEN MIMEDriveDirectory ELSE @],
             Path |-> path,
             Entries |-> <<>>]]

----------------------------------------------------------------------------
(* Insertion: addTo, split, extend, add.  Each returns [sub, err]: the     *)
(* subtrie as the call leaves it and the returned error; addTo also        *)
(* returns entries, the list of created entries.                           *)

split(subprefix, me, what, trimPath) ==
    LET newEntry == [Entries |-> me.Entries,
                     Path |-> trimPrefix(me.Path, subprefix),
                     Content |-> me.Content]
    IN  IF IsEmptyFolder(what) /\ what.Path = subprefix
        THEN [sub |-> [Content |-> what.Content,
                       Path |-> what.Path,
                       Entries |-> Append(what.Entries, newEntry)],
              err |-> ErrNil]
        ELSE LET w == IF trimPath
                      THEN [what EXCEPT !.Path = trimPrefix(what.Path, subprefix)]
                      ELSE what
             IN  [sub |-> [Content |-> NewContent(<<>>, "", 0, MIMEDriveEntry,
                                                  me.Content.CreatedAt),
                           Path |-> subprefix,
                           Entries |-> <<newEntry, w>>],
                  err |-> ErrNil]

\* extend with the append moved before the scan for a conflicting child
extendAppendFirst(subtrie, what) ==
    IF subtrie.Content.Type # MIMEDriveEntry
    THEN [sub |-> subtrie, err |-> ErrConflict]
    ELSE [sub |-> [subtrie EXCEPT !.Entries =
                      Append(@, [what EXCEPT !.Path = SpecialPathSymbol])],
          err |-> IF \E i \in 1..Len(subtrie.Entries) :
                        \/ subtrie.Entries[i].Path = SpecialPathSymbol
                        \/ subtrie.Entries[i].Path[1] = SeparatorRune
                  THEN ErrConflict ELSE ErrNil]

\* extend without the scan for a child that conflicts
extendNoScan(subtrie, what) ==
    IF subtrie.Content.Type # MIMEDriveEntry
    THEN [sub |-> subtrie, err |-> ErrConflict]
    ELSE [sub |-> [subtrie EXCEPT !.Entries =
                      Append(@, [what EXCEPT !.Path = SpecialPathSymbol])],
          err |-> ErrNil]

extend(subtrie, what) ==
    IF subtrie.Content.Type # MIMEDriveEntry
    THEN [sub |-> subtrie, err |-> ErrConflict]
    ELSE IF \E i \in 1..Len(subtrie.Entries) :
                \/ subtrie.Entries[i].Path = SpecialPathSymbol
                \/ subtrie.Entries[i].Path[1] = SeparatorRune
    THEN [sub |-> subtrie, err |-> ErrConflict]
    ELSE [sub |-> [subtrie EXCEPT !.Entries =
                      Append(@, [what EXCEPT !.Path = SpecialPathSymbol])],
          err |-> ErrNil]

\* index of the first child whose edge is ':', 0 if there is none
SentinelIndex(entries) ==
    IF \E i \in 1..Len(entries) : entries[i].Path = SpecialPathSymbol
    THEN CHOOSE i \in 1..Len(entries) :
            /\ entries[i].Path = SpecialPathSymbol
            /\ \A j \in 1..(i - 1) : entries[j].Path # SpecialPathSymbol
    ELSE 0

\* add that replaces the sentinel child whatever it holds
addReplaceSentinel(subtrie, what) ==
    IF subtrie.Content.Type # MIMEDriveEntry
    THEN [sub |-> subtrie, err |-> ErrConflict]
    ELSE IF what.Path[1] = SeparatorRune /\ IsEmptyFolder(subtrie)
    THEN [sub |-> [Content |-> what.Content,
                   Path |-> subtrie.Path \o what.Path,
                   Entries |-> IF what.Content.Type # MIMEDriveEntry
                               THEN <<>> ELSE subtrie.Entries],
          err |-> ErrNil]
    ELSE IF what.Path[1] = SeparatorRune /\ SentinelIndex(subtrie.Entries) > 0
    THEN [sub |-> [subtrie EXCEPT !.Entries[SentinelIndex(subtrie.Entries)] = what],
          err |-> ErrNil]
    ELSE [sub |-> [subtrie EXCEPT !.Entries = Append(@, what)], err |-> ErrNil]

add(subtrie, what) ==
    IF subtrie.Content.Type # MIMEDriveEntry
    THEN [sub |-> subtrie, err |-> ErrConflict]
    ELSE IF what.Path[1] = SeparatorRune /\ IsEmptyFolder(subtrie)
    THEN [sub |-> [Content |-> what.Content,
                   Path |-> subtrie.Path \o what.Path,
                   Entries |-> IF what.Content.Type # MIMEDriveEntry
                               THEN <<>> ELSE subtrie.Entries],
          err |-> ErrNil]
    ELSE IF what.Path[1] = SeparatorRune /\ SentinelIndex(subtrie.Entries) > 0
    THEN LET i == SentinelIndex(subtrie.Entries)
         IN  IF subtrie.Entries[i].Content.Type # MIMEDriveEntry
             THEN [sub |-> subtrie, err |-> ErrConflict]
             ELSE [sub |-> [subtrie EXCEPT !.Entries[i] = what], err |-> ErrNil]
    ELSE [sub |-> [subtrie EXCEPT !.Entries = Append(@, what)], err |-> ErrNil]

\* index of the first child whose first rune is r, 0 if there is none
RuneIndex(entries, r) ==
    IF \E i \in 1..Len(entries) : DecodeRuneInString(entries[i].Path) = r
    THEN CHOOSE i \in 1..Len(entries) :
            /\ DecodeRuneInString(entries[i].Path) = r
            /\ \A j \in 1..(i - 1) : DecodeRuneInString(entries[j].Path) # r
    ELSE 0

\* time.Now() as addTo reads it for the placeholder of a created directory
ClockNow == 9

RECURSIVE addTo(_, _)
addTo(subtrie, what) ==
    IF HasPrefix(subtrie.Path, what.Path)
    THEN LET suf == TrimPrefix(subtrie.Path, what.Path)
         IN  IF Len(suf) = 0
             THEN extend(subtrie, what) @@ [entries |-> fixEntries(<<what>>, <<>>)]
             ELSE IF suf[1] = SeparatorRune
             THEN [sub |-> subtrie, err |-> ErrConflict, entries |-> <<>>]
             ELSE split(what.Path, subtrie, what, TRUE)
                      @@ [entries |-> fixEntries(<<what>>, <<>>)]
    ELSE IF HasPrefix(what.Path, subtrie.Path)
    THEN LET w == [what EXCEPT !.Path = trimPrefix(what.Path, subtrie.Path)]
         IN  IF Len(subtrie.Entries) = 0
             THEN IF Len(w.Path) = 0 \/ w.Path[1] = SeparatorRune
                  THEN IF subtrie.Content.Type = MIMEDriveEntry
                       THEN LET path == subtrie.Path \o w.Path
                            IN  [sub |-> [subtrie EXCEPT !.Path = path,
                                                         !.Content = w.Content],
                                 err |-> ErrNil,
                                 entries |-> IF Len(w.Path) = 0
                                             THEN fixEntries(<<w>>, path)
                                             ELSE fixEntries(splitEntry(w), path)]
                       ELSE [sub |-> subtrie, err |-> ErrConflict, entries |-> <<>>]
                  ELSE split(subtrie.Path, subtrie, w, FALSE)
                           @@ [entries |-> fixEntries(splitEntry(w), subtrie.Path)]
             ELSE LET i == RuneIndex(subtrie.Entries, DecodeRuneInString(w.Path))
                  IN  IF i > 0
                      THEN LET r == addTo(subtrie.Entries[i], w)
                           IN  [sub |-> [subtrie EXCEPT !.Entries[i] = r.sub],
                                err |-> r.err,
                                entries |-> fixEntries(r.entries, subtrie.Path)]
                      ELSE add(subtrie, w)
                               @@ [entries |-> fixEntries(splitEntry(w), subtrie.Path)]
    ELSE LET subprefix == commonPrefix(subtrie.Path, what.Path)
             temp == [Content |-> what.Content,
                      Path |-> TrimPrefix(what.Path, subprefix),
                      Entries |-> <<>>]
             entries == IF temp.Path[1] = SeparatorRune
                        THEN Append(splitEntry(temp),
                                    NewEntry(<<>>, "", 0, MIMEDriveDirectory, ClockNow))
                        ELSE splitEntry(temp)
         IN  split(subprefix, subtrie, what, TRUE)
                 @@ [entries |-> fixEntries(entries, subprefix)]

----------------------------------------------------------------------------
(* Deletion: rm, removeAndMerge, deleteOrConvert.  Each returns            *)
(* [sub, found]: the subtrie as the call leaves it, and whether the        *)
(* returned *Entry is non-nil (the caller then removes the subtrie).       *)

\* the slice without its element idx (1-based)
RemoveAt(entries, idx) ==
    SubSeq(entries, 1, idx - 1) \o SubSeq(entries, idx + 1, Len(entries))

\* removeAndMerge without the merge of a single remaining child into its parent
removeNoMerge(subtrie, idx) ==
    IF Len(subtrie.Entries) <= 1
    THEN [sub |-> subtrie, found |-> TRUE]
    ELSE [sub |-> [subtrie EXCEPT !.Entries = RemoveAt(@, idx)], found |-> FALSE]

\* removeAndMerge that reports the subtrie as removed while two children are left
removeOffByOne(subtrie, idx) ==
    IF Len(subtrie.Entries) <= 2
    THEN [sub |-> subtrie, found |-> TRUE]
    ELSE [sub |-> [subtrie EXCEPT !.Entries = RemoveAt(@, idx)], found |-> FALSE]

removeAndMerge(subtrie, idx) ==
    IF Len(subtrie.Entries) <= 1
    THEN [sub |-> subtrie, found |-> TRUE]
    ELSE LET rest == RemoveAt(subtrie.Entries, idx)
         IN  IF Len(rest) = 1
             THEN IF rest[1].Path # SpecialPathSymbol
                  THEN [sub |-> [Content |-> rest[1].Content,
                                 Path |-> subtrie.Path \o rest[1].Path,
                                 Entries |-> rest[1].Entries],
                        found |-> FALSE]
                  ELSE [sub |-> [Content |-> rest[1].Content,
                                 Path |-> subtrie.Path,
                                 Entries |-> IF rest[1].Content.Type # MIMEDriveEntry
                                             THEN <<>> ELSE rest],
                        found |-> FALSE]
             ELSE [sub |-> [subtrie EXCEPT !.Entries = rest], found |-> FALSE]

\* deleteOrConvert without the conversion: the node is always removed
deleteNoConvert(md) == [sub |-> md, found |-> TRUE]

\* deleteOrConvert with the placeholder left at the path of the node itself
convertInPlace(md) ==
    LET idx == LastIndex(md.Path, SeparatorRune)
    IN  IF idx <= 0
        THEN [sub |-> md, found |-> TRUE]
        ELSE [sub |-> NewEntry(md.Path, "", 0, MIMEDriveEntry, md.Content.CreatedAt),
              found |-> FALSE]

deleteOrConvert(md) ==
    LET idx == LastIndex(md.Path, SeparatorRune)
    IN  IF idx <= 0
        THEN [sub |-> md, found |-> TRUE]
        ELSE [sub |-> NewEntry(SubSeq(md.Path, 1, idx), "", 0, MIMEDriveEntry,
                               md.Content.CreatedAt),
              found |-> FALSE]

RECURSIVE rmLoop(_, _, _)
RECURSIVE rm(_, _)
\* the loop over subtrie.Entries of rm, from child i on
rmLoop(subprefix, subtrie, i) ==
    IF i > Len(subtrie.Entries) THEN [sub |-> subtrie, found |-> FALSE]
    ELSE LET me == subtrie.Entries[i]
         IN  IF Len(subprefix) = 0
             THEN IF me.Path = SpecialPathSymbol
                  THEN removeAndMerge(subtrie, i)
                  ELSE rmLoop(subprefix, subtrie, i + 1)
             ELSE IF HasPrefix(subprefix, me.Path)
             THEN LET r == rm(subprefix, me)
                  IN  IF r.found
                      THEN removeAndMerge([subtrie EXCEPT !.Entries[i] = r.sub], i)
                      ELSE [sub |-> [subtrie EXCEPT !.Entries[i] = r.sub],
                            found |-> FALSE]
             ELSE IF HasPrefix(me.Path, subprefix)
             THEN [sub |-> subtrie, found |-> FALSE]
             ELSE rmLoop(subprefix, subtrie, i + 1)

rm(subprefix0, subtrie) ==
    LET subprefix == TrimPrefix(subprefix0, subtrie.Path)
    IN  IF /\ Len(subprefix) = 0
           /\ (subtrie.Content.Type # MIMEDriveEntry \/ IsEmptyFolder(subtrie))
        THEN deleteOrConvert(subtrie)
        ELSE rmLoop(subprefix, subtrie, 1)

----------------------------------------------------------------------------
(* Queries: find, stat, list, collect, listRecursive.  A *Content is       *)
(* [cnt, ref]; a nil pointer is the empty sequence, a non-nil one a        *)
(* one-element sequence.                                                   *)

Fresh == <<0>>

Ptr(cnt, ref) == [cnt |-> cnt, ref |-> ref]

\* updateFolderEntry that writes cnt.Name whatever cnt.Type is
updateFolderEntryAnyType(ptr, me) ==
    LET idx == LastIndex(me.Path, SeparatorRune)
    IN  IF idx < 0
        THEN [ptr EXCEPT !.cnt.Name = me.Path \o @]
        ELSE [ptr EXCEPT !.cnt.Name = SubSeq(me.Path, idx + 2, Len(me.Path)) \o @]

\* updateFolderEntry writes cnt.Name only when cnt.Type is MIMEDriveDirectory;
\* such a Content is never one stored in the trie, so the write stays in ptr
updateFolderEntry(ptr, me) ==
    IF ptr.cnt.Type # MIMEDriveDirectory THEN ptr
    ELSE LET idx == LastIndex(me.Path, SeparatorRune)
         IN  IF idx < 0
             THEN [ptr EXCEPT !.cnt.Name = me.Path \o @]
             ELSE [ptr EXCEPT !.cnt.Name = SubSeq(me.Path, idx + 2, Len(me.Path)) \o @]

RECURSIVE findLoop(_, _, _, _)
RECURSIVE find(_, _, _)
\* the loop over subtrie.Entries of find, from child i on
findLoop(subprefix, subtrie, pos, i) ==
    IF i > Len(subtrie.Entries) THEN <<>>
    ELSE LET me == subtrie.Entries[i]
         IN  IF Len(subprefix) = 0
             THEN IF me.Path = SpecialPathSymbol
                  THEN IF me.Content.Type # MIMEDriveEntry
                       THEN <<Ptr(me.Content, Append(pos, i))>>
                       ELSE <<updateFolderEntry(
                                 Ptr(NewContent(<<>>, "", 0, MIMEDriveDirectory,
                                                subtrie.Content.CreatedAt), Fresh),
                                 subtrie)>>
                  ELSE findLoop(subprefix, subtrie, pos, i + 1)
             ELSE IF HasPrefix(subprefix, me.Path)
             THEN LET item == find(subprefix, me, Append(pos, i))
                  IN  IF item # <<>>
                      THEN <<updateFolderEntry(item[1], subtrie)>>
                      ELSE <<>>
             ELSE IF HasPrefix(me.Path, subprefix)
             THEN <<>>
             ELSE findLoop(subprefix, subtrie, pos, i + 1)

find(subprefix0, subtrie, pos) ==
    LET subprefix == TrimPrefix(subprefix0, subtrie.Path)
    IN  IF Len(subprefix) = 0 /\ subtrie.Content.Type # MIMEDriveEntry
        THEN <<Ptr(subtrie.Content, pos)>>
        ELSE IF Len(subprefix) = 0 /\ IsEmptyFolder(subtrie)
        THEN <<updateFolderEntry(
                   Ptr(NewContent(<<>>, "", 0, MIMEDriveDirectory,
                                  subtrie.Content.CreatedAt), Fresh),
                   subtrie)>>
        ELSE findLoop(subprefix, subtrie, pos, 1)

\* stat returning the Content of the branch itself for a directory
StatDirStored(subtrie) == <<subtrie.Content>>

\* the synthetic directory Content stat returns for subtrie
StatDir(subtrie) ==
    <<NewContent(<<>>, "", 0, MIMEDriveDirectory, subtrie.Content.CreatedAt)>>

RECURSIVE statLoop(_, _, _)
RECURSIVE stat(_, _)
\* the loop over subtrie.Entries of stat, from child i on
statLoop(subprefix, subtrie, i) ==
    IF i > Len(subtrie.Entries) THEN <<>>
    ELSE LET me == subtrie.Entries[i]
         IN  IF Len(subprefix) = 0
             THEN IF me.Path = SpecialPathSymbol
                  THEN IF me.Content.Type # MIMEDriveEntry
                       THEN <<me.Content>>
                       ELSE StatDir(subtrie)
                  ELSE IF me.Path[1] = SeparatorRune
                  THEN StatDir(subtrie)
                  ELSE statLoop(subprefix, subtrie, i + 1)
             ELSE LET item == stat(subprefix, me)
                  IN  IF item # <<>> THEN item
                      ELSE statLoop(subprefix, subtrie, i + 1)

stat(subprefix0, subtrie) ==
    IF HasPrefix(subprefix0, subtrie.Path)
    THEN LET subprefix == TrimPrefix(subprefix0, subtrie.Path)
         IN  IF Len(subprefix) = 0 /\ subtrie.Content.Type # MIMEDriveEntry
             THEN <<subtrie.Content>>
             ELSE IF Len(subprefix) = 0 /\ IsEmptyFolder(subtrie)
             THEN StatDir(subtrie)
             ELSE statLoop(subprefix, subtrie, 1)
    ELSE IF HasPrefix(subtrie.Path, subprefix0)
    THEN LET subprefix == TrimPrefix(subtrie.Path, subprefix0)
         IN  IF subprefix[1] = SeparatorRune THEN StatDir(subtrie) ELSE <<>>
    ELSE <<>>

\* a new MIMEDriveDirectory Content named name, as collect allocates it
CollectDir(name, createdAt) ==
    <<Ptr(NewContent(name, "", 0, MIMEDriveDirectory, createdAt), Fresh)>>

RECURSIVE collectLoop(_, _, _, _)
RECURSIVE collect(_, _, _, _)
\* the loop over subtrie.Entries of collect, from child i on
collectLoop(fullname, subtrie, pos, i) ==
    IF i > Len(subtrie.Entries) THEN <<>>
    ELSE LET me == subtrie.Entries[i]
         IN  (IF Len(me.Path) # 0 /\ me.Path[1] = SeparatorRune
              THEN CollectDir(fullname, me.Content.CreatedAt)
              ELSE collect(<<>>, fullname, me, Append(pos, i)))
                 \o collectLoop(fullname, subtrie, pos, i + 1)

collect(prefix, fullname0, subtrie, pos) ==
    IF subtrie.Path = SpecialPathSymbol
    THEN IF subtrie.Content.Type = MIMEDriveEntry
         THEN CollectDir(fullname0, subtrie.Content.CreatedAt)
         ELSE <<Ptr(subtrie.Content, pos)>>
    ELSE LET s1 == IF Len(prefix) # 0 THEN TrimPrefix(subtrie.Path, prefix)
                   ELSE subtrie.Path
             suffix == IF Len(s1) # 0 /\ s1[1] = SeparatorRune THEN Tail(s1) ELSE s1
             slashIdx == Index(suffix, SeparatorRune)
             fullname == fullname0 \o suffix
         IN  IF slashIdx > 0
             THEN CollectDir(fullname0 \o SubSeq(suffix, 1, slashIdx),
                             subtrie.Content.CreatedAt)
             ELSE IF slashIdx = 0
             THEN <<>>
             ELSE IF Len(subtrie.Entries) = 0
             THEN IF subtrie.Content.Type = MIMEDriveEntry
                  THEN CollectDir(IF subtrie.Content.Name = fullname
                                  THEN subtrie.Content.Name
                                  ELSE fullname \o subtrie.Content.Name,
                                  subtrie.Content.CreatedAt)
                  ELSE <<Ptr(subtrie.Content, pos)>>
             ELSE collectLoop(fullname, subtrie, pos, 1)

RECURSIVE listLoop(_, _, _, _)
RECURSIVE list(_, _, _)
\* the loop over subtrie.Entries of list, from child i on
listLoop(suffix, subtrie, pos, i) ==
    IF i > Len(subtrie.Entries) THEN <<>>
    ELSE list(suffix, subtrie.Entries[i], Append(pos, i))
             \o listLoop(suffix, subtrie, pos, i + 1)

list(path, subtrie, pos) ==
    IF HasPrefix(subtrie.Path, path) /\ subtrie.Path # path
    THEN LET suffix == TrimPrefix(subtrie.Path, path)
         IN  IF Len(suffix) # 0 /\ suffix[1] = SeparatorRune
             THEN collect(path, <<>>, subtrie, pos)
             ELSE <<>>
    ELSE IF HasPrefix(path, subtrie.Path)
    THEN IF Len(subtrie.Entries) = 0 THEN <<>>
         ELSE listLoop(TrimPrefix(path, subtrie.Path), subtrie, pos, 1)
    ELSE <<>>

RECURSIVE listRecursiveFrom(_, _, _, _, _)
RECURSIVE listRecursive(_, _, _)
\* the loop over entries of listRecursive, from element i on
listRecursiveFrom(entries, path, fixedPath, subtrie, i) ==
    IF i > Len(entries) THEN <<>>
    ELSE LET c == entries[i].cnt
             p == JoinPath(<<path, c.Name>>)
         IN  <<[Content |-> c, Path |-> TrimPrefix(p, fixedPath), Entries |-> <<>>]>>
                 \o (IF c.Type = MIMEDriveDirectory
                     THEN listRecursive(p, fixedPath, subtrie)
                     ELSE <<>>)
                 \o listRecursiveFrom(entries, path, fixedPath, subtrie, i + 1)

listRecursive(path, fixedPath, subtrie) ==
    listRecursiveFrom(list(path, subtrie, <<>>), path, fixedPath, subtrie, 1)

----------------------------------------------------------------------------
(* The Trie.  t is Trie.Root: <<>> for nil, <<entry>> otherwise.  The      *)
(* public operations run under Trie.lock from their first statement to     *)
(* their return, so each is one atomic step of the model.                  *)

\* the byte value of a byte of the model, for the string order of sort
ByteOrd(b) ==
    CASE b = "." -> 46
      [] b = "/" -> 47
      [] b = "A0" -> 160
      [] b = "A1" -> 161
      [] b = ":" -> 58
      [] b = "C3" -> 195
      [] b = "EFBFBD" -> 239
      [] b = "a" -> 97
      [] b = "b" -> 98
      [] OTHER -> 120

\* a < b for Go strings
RECURSIVE StrLess(_, _)
StrLess(a, b) ==
    IF Len(b) = 0 THEN FALSE
    ELSE IF Len(a) = 0 THEN TRUE
    ELSE IF a[1] = b[1] THEN StrLess(Tail(a), Tail(b))
    ELSE ByteOrd(a[1]) < ByteOrd(b[1])

\* sort.SliceStable by Path: insert e after the last element not greater than it
RECURSIVE InsertStable(_, _)
InsertStable(sorted, e) ==
    IF Len(sorted) = 0 THEN <<e>>
    ELSE IF StrLess(e.Path, sorted[Len(sorted)].Path)
         THEN Append(InsertStable(SubSeq(sorted, 1, Len(sorted) - 1), e),
                     sorted[Len(sorted)])
         ELSE Append(sorted, e)

RECURSIVE SliceStable(_)
SliceStable(entries) ==
    IF Len(entries) = 0 THEN <<>>
    ELSE InsertStable(SliceStable(SubSeq(entries, 1, Len(entries) - 1)),
                      entries[Len(entries)])

lsRecursive(t, path) ==
    IF t = <<>> THEN <<>>
    ELSE LET p == CleanPath(path)
         IN  SliceStable(listRecursive(p, p, t[1]))

LsRecursive(t, path) == lsRecursive(t, path)

\* Ls returns the pointers of list as they are
LsPtrs(t, path) ==
    IF t = <<>> THEN <<>> ELSE list(CleanPath(path), t[1], <<>>)

Ls(t, path) ==
    LET ptrs == LsPtrs(t, path)
    IN  [i \in 1..Len(ptrs) |-> ptrs[i].cnt]

\* File: [err, cnt]; cnt is meaningful when err is ErrNil
NoContent == NewContent(<<>>, "", 0, "", 0)

File(t, path) ==
    IF Len(path) = 0 THEN [err |-> ErrEmptyPath, cnt |-> NoContent]
    ELSE IF t = <<>> THEN [err |-> ErrFileNotExist, cnt |-> NoContent]
    ELSE LET f == find(CleanPath(path), t[1], <<>>)
         IN  IF f = <<>> THEN [err |-> ErrFileNotExist, cnt |-> NoContent]
             ELSE [err |-> ErrNil, cnt |-> f[1].cnt]

Stat(t, path) ==
    IF Len(path) = 0 THEN [err |-> ErrEmptyPath, cnt |-> NoContent]
    ELSE IF t = <<>> \/ path = Separator
    THEN [err |-> ErrFileNotExist, cnt |-> NoContent]
    ELSE LET f == stat(CleanPath(path), t[1])
         IN  IF f = <<>> THEN [err |-> ErrFileNotExist, cnt |-> NoContent]
             ELSE [err |-> ErrNil, cnt |-> [f[1] EXCEPT !.Name = Base(path)]]

\* the entry with the Content of the node at position pos replaced by c
RECURSIVE SetContentAt(_, _, _)
SetContentAt(entry, pos, c) ==
    IF Len(pos) = 0 THEN [entry EXCEPT !.Content = c]
    ELSE [entry EXCEPT !.Entries[pos[1]] = SetContentAt(@, Tail(pos), c)]

RECURSIVE ContentAt(_, _)
ContentAt(entry, pos) ==
    IF Len(pos) = 0 THEN entry.Content
    ELSE ContentAt(entry.Entries[pos[1]], Tail(pos))

\* AddFile with the root installed before the entry is validated
AddFileInstallFirst(t, m) ==
    LET v == Validate(m)
    IN  IF t = <<>>
        THEN [t |-> <<m>>, err |-> v.err,
              entries |-> <<>>, first |-> TRUE]
        ELSE IF v.err # ErrNil
        THEN [t |-> t, err |-> v.err, entries |-> <<>>, first |-> FALSE]
        ELSE LET r == addTo(t[1], [v.entry EXCEPT !.Path = CleanPath(@)])
             IN  [t |-> <<r.sub>>, err |-> r.err, entries |-> r.entries,
                  first |-> FALSE]

\* AddFile(m) for a non-nil m: [t, err, entries, first]; first tells that m itself
\* was installed as the root
AddFileCore(t, m) ==
    LET v == Validate(m)
    IN  IF v.err # ErrNil
        THEN [t |-> t, err |-> v.err, entries |-> <<>>, first |-> FALSE]
        ELSE LET m1 == [v.entry EXCEPT !.Path = CleanPath(@)]
             IN  IF t = <<>>
                 THEN [t |-> <<m1>>, err |-> ErrNil,
                       entries |-> lsRecursive(<<m1>>, Separator), first |-> TRUE]
                 ELSE LET r == addTo(t[1], m1)
                      IN  [t |-> <<r.sub>>, err |-> r.err, entries |-> r.entries,
                           first |-> FALSE]

\* Delete(path): [t, err]
DeleteCore(t, path) ==
    IF Len(path) = 0 THEN [t |-> t, err |-> ErrEmptyPath]
    ELSE IF t = <<>> THEN [t |-> t, err |-> ErrNil]
    ELSE LET item == rm(CleanPath(path), t[1])
         IN  [t |-> IF item.found THEN <<>> ELSE <<item.sub>>, err |-> ErrNil]

\* Replace(path, cnt): [t, err, new, old]
ReplaceCore(t, path, cnt) ==
    IF Len(path) = 0
    THEN [t |-> t, err |-> ErrEmptyPath, new |-> NoContent, old |-> NoContent]
    ELSE IF t = <<>>
    THEN [t |-> t, err |-> ErrFileNotExist, new |-> NoContent, old |-> NoContent]
    ELSE LET f == find(CleanPath(path), t[1], <<>>)
         IN  IF f = <<>>
             THEN [t |-> t, err |-> ErrFileNotExist, new |-> NoContent,
                   old |-> NoContent]
             ELSE [t |-> IF f[1].ref = Fresh THEN t
                         ELSE <<SetContentAt(t[1], f[1].ref,
                                  [f[1].cnt EXCEPT !.CID = cnt.CID,
                                                   !.Size = cnt.Size,
                                                   !.CreatedAt = cnt.CreatedAt])>>,
                   err |-> ErrNil, new |-> cnt, old |-> f[1].cnt]


\* the removal loop of createRef over entries[i], ..., entries[1], in that order:
\* [t, panic]; rm on a nil root dereferences nil
RECURSIVE createRefRemove(_, _, _, _)
createRefRemove(t, entries, path, i) ==
    IF i = 0 THEN [t |-> t, panic |-> FALSE]
    ELSE IF t = <<>> THEN [t |-> t, panic |-> TRUE]
    ELSE LET res == rm(JoinPath(<<path, entries[i].Path>>), t[1])
         IN  createRefRemove(IF res.found THEN <<>> ELSE <<res.sub>>,
                             entries, path, i - 1)

ErrPanic == "panic"

\* createRef(path, bucketID, trie, createdAt): [t, err, entries]
createRef(path, bucketID, t, createdAt) ==
    LET f == find(path, t[1], <<>>)
        e == listRecursive(path, path, t[1])
        entries == IF f # <<>>
                   THEN <<[Content |-> f[1].cnt, Path |-> <<>>, Entries |-> <<>>]>>
                   ELSE <<[Content |-> NewContent(<<>>, "", 0, MIMEDriveEntry, createdAt),
                           Path |-> <<>>, Entries |-> <<>>]>> \o e
        joined == [i \in 1..Len(entries) |->
                      [entries[i] EXCEPT !.Path = JoinPath(<<path, @>>)]]
    IN  IF f = <<>> /\ Len(e) = 0
        THEN [t |-> t, err |-> ErrFileNotExist, entries |-> <<>>]
        ELSE LET rmd == createRefRemove(t, entries, path, Len(entries))
                 refEntry == NewEntry(path, bucketID, 0, MIMEReference, createdAt)
                 v == Validate(refEntry)
             IN  IF rmd.panic
                 THEN [t |-> rmd.t, err |-> ErrPanic, entries |-> <<>>]
                 ELSE IF v.err # ErrNil
                 THEN [t |-> rmd.t, err |-> v.err, entries |-> <<>>]
                 ELSE IF rmd.t = <<>>
                 THEN [t |-> <<v.entry>>, err |-> ErrNil, entries |-> joined]
                 ELSE LET r == addTo(rmd.t[1], v.entry)
                      IN  [t |-> <<r.sub>>, err |-> r.err,
                           entries |-> IF r.err = ErrNil THEN joined ELSE <<>>]

\* CreateRef(path, bucketID, createdAt): [t, err, entries]
CreateRefCore(t, path, bucketID, createdAt) ==
    IF Len(path) = 0 THEN [t |-> t, err |-> ErrEmptyPath, entries |-> <<>>]
    ELSE IF path = Separator THEN [t |-> t, err |-> ErrCantCreateRef, entries |-> <<>>]
    ELSE IF t = <<>> THEN [t |-> t, err |-> ErrFileNotExist, entries |-> <<>>]
    ELSE createRef(CleanPath(path), bucketID, t, createdAt)

----------------------------------------------------------------------------
(* State and actions *)

VARIABLES
    root,     \* Trie.Root
    call,     \* the last call: [op, path, err, first, changed]
    nops,     \* number of calls made
    pure,     \* every call so far was an AddFile that returned no ErrConflict
    added,    \* while pure: the [path, dir] inserted so far
    thr,      \* concurrent callers: what each goroutine is doing
    lock,     \* Trie.lock: [writer, readers]
    hist      \* the tries the completed writes have produced, in order

\* the state of the concurrent callers
conc == <<thr, lock, hist>>

vars == <<root, call, nops, pure, added, thr, lock, hist>>

\* the goroutines of the concurrent callers
Writers == {"w1", "w2"}
Readers == {"r1"}
Threads == Writers \cup Readers
NoThread == "none"

\* a goroutine between two calls, with the result of its last call
NoOp == [kind |-> "none", path |-> <<>>, m |-> <<>>, cnt |-> <<>>]
Idle == [pc |-> "idle", op |-> NoOp, stage |-> 0, start |-> <<>>, w |-> <<>>,
         res |-> <<>>, ptrs |-> <<>>, seen |-> <<>>, used |-> <<>>]

\* sync.RWMutex with nobody holding it
Unlocked == [writer |-> NoThread, readers |-> {}]

\* bound on the number of calls of a behaviour
MaxOps == 4

\* Arguments the callers pass.  FilePaths are added as files and as directory
\* markers; the other entries exercise Validate and CleanPath.
FilePaths ==
    { <<"/", "a">>, <<"/", "b">>, <<"/", "a", "b">>,
      <<"/", "a", "/", "a">>, <<"/", "a", "/", "b">> }

\* the entries callers build with NewEntry(path, cid, 5, type, time.Unix(1, 0));
\* the last one has its Content.Name overwritten with "a/b"
CallerEntries ==
    { NewEntry(p, "c1", 5, ty, 1) : p \in FilePaths, ty \in {MIMEOctetStream, MIMEDriveEntry} }
    \cup { NewEntry(<<"/", "a", "b">>, "c2", 5, MIMEOctetStream, 1),
           NewEntry(<<"a", "/", "/", "b", "/">>, "c2", 5, "", 1),
           NewEntry(<<"/">>, "", 0, MIMEDriveEntry, 1),
           NewEntry(<<"/">>, "c1", 5, MIMEOctetStream, 1),
           NewEntry(<<>>, "c1", 5, MIMEOctetStream, 1),
           NewEntry(<<>>, "", 0, MIMEDriveEntry, 1),
           NewEntry(<<"/", "a", ":">>, "c1", 5, MIMEOctetStream, 1),
           NewEntry(<<"/", "a">>, "", 0, MIMEDriveDirectory, 1),
           [NewEntry(<<"/", "b">>, "c1", 5, MIMEOctetStream, 1)
               EXCEPT !.Content.Name = <<"a", "/", "b">>] }

\* paths passed to Delete, File, Stat, Ls and LsRecursive
ArgPaths ==
    FilePaths \cup { <<>>, <<"/">>, <<"/", "a", ":">>, <<"a", "/", "/", "b", "/">> }

\* paths passed to Replace and to CreateRef
ReplacePaths == { <<>>, <<"/", "a">>, <<"/", "a", "b">> }

CreateRefPaths ==
    { <<>>, <<"/">>, <<"/", "a">>, <<"/", "a", "/", "b">>, <<"/", "a", ":">> }

\* the Content a caller passes to Replace
ReplaceContents ==
    { [Name |-> <<"n">>, CID |-> "c3", Type |-> MIMEOctetStream, Size |-> 7,
       Version |-> 1, CreatedAt |-> 2] }

\* first: the call installed its argument as the root; changed: it changed the trie
Call(op, path, err, first, changed) ==
    [op |-> op, path |-> path, err |-> err, first |-> first, changed |-> changed]

Init ==
    /\ root = <<>>
    /\ call = Call("NewTrie", <<>>, ErrNil, FALSE, FALSE)
    /\ nops = 0
    /\ pure = TRUE
    /\ added = {}
    /\ thr = [t \in Threads |-> Idle]
    /\ lock = Unlocked
    /\ hist = << <<>> >>

AddFileNil ==
    /\ nops < MaxOps
    /\ UNCHANGED conc
    /\ nops' = nops + 1
    /\ call' = Call("AddFile", <<>>, ErrConflict, FALSE, FALSE)
    /\ pure' = FALSE
    /\ added' = {}
    /\ UNCHANGED root

AddFile(m) ==
    LET r == AddFileCore(root, m)
        p == CleanPath(m.Path)
    IN  /\ nops < MaxOps
        /\ UNCHANGED conc
        /\ nops' = nops + 1
        /\ root' = r.t
        /\ call' = Call("AddFile", p, r.err, r.first, r.t # root)
        /\ pure' = (pure /\ r.err # ErrConflict)
        /\ added' = IF ~pure' THEN {}
                    ELSE IF r.err = ErrNil
                    THEN added \cup {[path |-> p, dir |-> m.Content.Type = MIMEDriveEntry]}
                    ELSE added

Delete(path) ==
    LET r == DeleteCore(root, path)
    IN  /\ nops < MaxOps
        /\ UNCHANGED conc
        /\ nops' = nops + 1
        /\ root' = r.t
        /\ call' = Call("Delete", path, r.err, FALSE, r.t # root)
        /\ pure' = FALSE
        /\ added' = {}

Replace(path, cnt) ==
    LET r == ReplaceCore(root, path, cnt)
    IN  /\ nops < MaxOps
        /\ UNCHANGED conc
        /\ nops' = nops + 1
        /\ root' = r.t
        /\ call' = Call("Replace", path, r.err, FALSE, r.t # root)
        /\ pure' = FALSE
        /\ added' = {}

CreateRef(path, bucketID) ==
    LET r == CreateRefCore(root, path, bucketID, 2)
    IN  /\ nops < MaxOps
        /\ UNCHANGED conc
        /\ nops' = nops + 1
        /\ root' = r.t
        /\ call' = Call("CreateRef", path, r.err, FALSE, r.t # root)
        /\ pure' = FALSE
        /\ added' = {}

Next ==
    \/ AddFileNil
    \/ \E m \in CallerEntries : AddFile(m)
    \/ \E path \in ArgPaths : Delete(path)
    \/ \E path \in ReplacePaths, cnt \in ReplaceContents : Replace(path, cnt)
    \/ \E path \in CreateRefPaths : CreateRef(path, "bk")

Spec == Init /\ [][Next]_vars

----------------------------------------------------------------------------
(* Callers that write through the pointers they hold.  AddFile stores its   *)
(* argument itself as the root when the trie is empty (mt.Root = m) and a   *)
(* copy otherwise (m.copy()); Ls returns the []*Content of list, in which   *)
(* collect puts &subtrie.Content for a file.                                *)

\* what a caller writes into the Entry it passed to AddFile
EntryWrites == {"CID", "Path"}

\* the caller writes to the Entry e it has just passed to a successful AddFile
MutateEntry(w) ==
    /\ nops < MaxOps
    /\ UNCHANGED conc
    /\ call.op = "AddFile"
    /\ call.err = ErrNil
    /\ nops' = nops + 1
    /\ root' = IF ~call.first THEN root
               ELSE IF w = "CID" THEN <<[root[1] EXCEPT !.Content.CID = "corrupted"]>>
               ELSE <<[root[1] EXCEPT !.Path = @ \o <<"b">>]>>
    /\ call' = Call("MutateEntry", call.path, ErrNil, call.first, root' # root)
    /\ pure' = FALSE
    /\ added' = {}

\* the caller calls Ls(path) and writes to the i-th *Content of the result
MutateLsResult(path, i) ==
    LET ptrs == LsPtrs(root, path)
    IN  /\ nops < MaxOps
        /\ UNCHANGED conc
        /\ i <= Len(ptrs)
        /\ nops' = nops + 1
        /\ root' = IF ptrs[i].ref = Fresh THEN root
                   ELSE <<SetContentAt(root[1], ptrs[i].ref,
                                       [ptrs[i].cnt EXCEPT !.CID = "corrupted"])>>
        /\ call' = Call("MutateLsResult", path, ErrNil, FALSE, root' # root)
        /\ pure' = FALSE
        /\ added' = {}

\* bound on the length of an Ls result a caller writes to
MaxLs == 2

NextAlias ==
    \/ Next
    \/ \E w \in EntryWrites : MutateEntry(w)
    \/ \E path \in ArgPaths, i \in 1..MaxLs : MutateLsResult(path, i)

SpecAlias == Init /\ [][NextAlias]_vars

----------------------------------------------------------------------------
(* Properties *)

\* C1: after any sequence of AddFile calls from the empty trie in which no call
\* returned ErrConflict, every inserted path is retrievable: File succeeds on a
\* path inserted as a file, Stat succeeds on one inserted as a directory marker.
C1_AddedRetrievable ==
    pure => \A e \in added :
                IF e.dir THEN Stat(root, e.path).err = ErrNil
                ELSE File(root, e.path).err = ErrNil

\* the paths of ArgPaths that name another entry than path does
OtherPaths(path) == { q \in ArgPaths : CleanPath(q) # CleanPath(path) }

\* the paths of ArgPaths at which File finds a file or a reference
HeldFiles(t) ==
    { q \in ArgPaths : /\ File(t, q).err = ErrNil
                       /\ File(t, q).cnt.Type # MIMEDriveDirectory }

\* C2: after Delete(p) returns, File(p) returns ErrFileNotExist and the result of
\* File for every other path q is the same as before the Delete; stated for the
\* paths q at which File found a file before the call
C2_DeleteFrame ==
    [][(call'.op = "Delete" /\ call'.err = ErrNil) =>
          /\ File(root', call'.path).err = ErrFileNotExist
          /\ \A q \in OtherPaths(call'.path) \cap HeldFiles(root) :
                 File(root', q) = File(root, q)]_vars

\* C3: whenever AddFile returns ErrConflict the trie (root, every node's path,
\* content and child order) is the same as before the call
C3_ConflictNoMutation ==
    [][(call'.op = "AddFile" /\ call'.err = ErrConflict) => root' = root]_vars

\* AddFile returned ErrConflict on a trie that holds entries
C3_Witness ==
    /\ call.op = "AddFile"
    /\ call.err = ErrConflict
    /\ root # <<>>
    /\ call.path # <<>>

ValidationErrors ==
    { ErrEmptyPath, ErrEmptyName, ErrIllegalPathChars, ErrIllegalNameChars,
      ErrCantAddDirectory }

\* C4: whenever AddFile returns a validation error (ErrEmptyPath, ErrEmptyName,
\* ErrIllegalPathChars, ErrIllegalNameChars or ErrCantAddDirectory) the trie is
\* the same as before the call
C4_ValidationNoMutation ==
    [][(call'.op = "AddFile" /\ call'.err \in ValidationErrors) => root' = root]_vars

\* AddFile returned a validation error on a trie that holds entries
C4_Witness ==
    /\ call.op = "AddFile"
    /\ call.err \in ValidationErrors
    /\ root # <<>>

\* C5: whenever CreateRef returns an error the trie is the same as before the
\* call: the excision and the insertion of the reference happen both or not at all
C5_CreateRefAtomic ==
    [][(call'.op = "CreateRef" /\ call'.err # ErrNil) => root' = root]_vars

\* C6: after a successful AddFile(e), the first insertion included, a write of the
\* caller to e does not change the trie: File on the inserted path returns what
\* it returned before the write
C6_AddFileIsolated ==
    [][call'.op = "MutateEntry" => File(root', call.path) = File(root, call.path)]_vars

\* C7: no returned value aliases trie storage; for Ls: a write of the caller to a
\* Content that Ls returned changes the result of no later File, Ls or LsRecursive
C7_LsResultOwned ==
    [][call'.op = "MutateLsResult" =>
          \A q \in ArgPaths : /\ File(root', q) = File(root, q)
                              /\ Ls(root', q) = Ls(root, q)
                              /\ LsRecursive(root', q) = LsRecursive(root, q)]_vars

\* no branch below e, e included, has exactly one child unless it is the sentinel
RECURSIVE Compressed(_)
Compressed(e) ==
    /\ (Len(e.Entries) = 1 => e.Entries[1].Path = SpecialPathSymbol)
    /\ \A i \in 1..Len(e.Entries) : Compressed(e.Entries[i])

\* C8: after any Delete no branch node has exactly one child unless that child is
\* the sentinel ':'
C8_CompressedAfterDelete ==
    (call.op = "Delete" /\ root # <<>>) => Compressed(root[1])

\* a Delete removed an entry of a branch and merged the file that was left into
\* the root
C8_Witness ==
    /\ call.op = "Delete"
    /\ call.changed
    /\ root # <<>>
    /\ Len(root[1].Entries) = 0
    /\ root[1].Content.Type = MIMEOctetStream

\* the trie is one node that bears content: a file, a reference or an empty folder
SoleBearer(t) ==
    /\ t # <<>>
    /\ \/ Len(t[1].Entries) = 0 /\ t[1].Content.Type # MIMEDriveEntry
       \/ IsEmptyFolder(t[1])

\* filepath.Dir for a clean path with a separator after its first byte
ParentDir(path) == SubSeq(path, 1, LastIndex(path, SeparatorRune))

\* C9: when Delete removes the sole content bearer of the trie and its path is not
\* directly under the root, the trie afterwards holds an empty-folder placeholder
\* at the parent directory path
C9_PlaceholderAtParent ==
    [][(/\ call'.op = "Delete"
        /\ SoleBearer(root)
        /\ CleanPath(call'.path) = root[1].Path
        /\ LastIndex(root[1].Path, SeparatorRune) > 0) =>
          /\ root' # <<>>
          /\ IsEmptyFolder(root'[1])
          /\ root'[1].Path = ParentDir(root[1].Path)
          /\ File(root', ParentDir(root[1].Path)).err = ErrNil
          /\ File(root', ParentDir(root[1].Path)).cnt.Type = MIMEDriveDirectory
          /\ File(root', call'.path).err = ErrFileNotExist]_vars

\* Delete turned the only entry, two levels deep, into the placeholder of its parent
C9_Witness ==
    /\ call.op = "Delete"
    /\ call.changed
    /\ call.path = <<"/", "a", "/", "b">>
    /\ root # <<>>
    /\ IsEmptyFolder(root[1])
    /\ root[1].Path = <<"/", "a">>

\* Scenario S3 with a for folder and b for f1: the step Delete("/a/b") taken right
\* after AddFile put the file /a/b into the empty trie
S3Step ==
    /\ call.op = "AddFile"
    /\ call.first
    /\ call.err = ErrNil
    /\ call.path = <<"/", "a", "/", "b">>
    /\ root[1].Content.Type = MIMEOctetStream
    /\ call'.op = "Delete"
    /\ call'.path = <<"/", "a", "/", "b">>

RECURSIVE SumLeaves(_, _)
RECURSIVE NumLeaves(_)
SumLeaves(entries, i) ==
    IF i > Len(entries) THEN 0
    ELSE NumLeaves(entries[i]) + SumLeaves(entries, i + 1)

NumLeaves(e) ==
    IF Len(e.Entries) = 0
    THEN IF e.Content.Type # MIMEDriveEntry \/ e.Path = SpecialPathSymbol THEN 1 ELSE 0
    ELSE SumLeaves(e.Entries, 1)

RECURSIVE StoredBelow(_, _)
StoredBelow(e, prefix) ==
    LET full == IF e.Path = SpecialPathSymbol THEN prefix ELSE prefix \o e.Path
    IN  IF Len(e.Entries) = 0
        THEN {[path |-> full, type |-> e.Content.Type]}
        ELSE UNION { StoredBelow(e.Entries[i], full) : i \in 1..Len(e.Entries) }

Stored(t) == IF t = <<>> THEN {} ELSE StoredBelow(t[1], <<>>)

\* the paths of the stored files and references, and of the empty-folder markers
FilesOf(t) == { s.path : s \in { x \in Stored(t) : x.type # MIMEDriveEntry } }

MarkersOf(t) == { s.path : s \in { x \in Stored(t) : x.type = MIMEDriveEntry } }

\* the directories above p, the root directory "/" left out
Ancestors(p) ==
    { SubSeq(p, 1, i - 1) : i \in { j \in 2..Len(p) : p[j] = SeparatorRune } }

\* the paths that are directories: the markers and the ancestors of what is stored
DirsOf(t) == MarkersOf(t) \cup UNION { Ancestors(s.path) : s \in Stored(t) }

\* (i) a file and a directory would occupy the same exact path
SamePathConflict(t, m) ==
    LET p == CleanPath(m.Path)
    IN  \/ m.Content.Type # MIMEDriveEntry /\ p \in DirsOf(t)
        \/ m.Content.Type = MIMEDriveEntry /\ p \in FilesOf(t)
        \/ Ancestors(p) \cap FilesOf(t) # {}

\* (ii) a second value would attach at an existing value-bearing leaf
SecondValueConflict(t, m) ==
    LET p == CleanPath(m.Path)
    IN  \/ m.Content.Type # MIMEDriveEntry /\ p \in FilesOf(t)
        \/ m.Content.Type = MIMEDriveEntry /\ p \in MarkersOf(t)

\* a directory marker would be put at a path that already is a directory
ExistingDirConflict(t, m) ==
    m.Content.Type = MIMEDriveEntry /\ CleanPath(m.Path) \in DirsOf(t)

\* the entries of the callers that Validate accepts
ValidEntries == { m \in CallerEntries : Validate(m).err = ErrNil }

NumSentinels(e) ==
    Cardinality({ i \in 1..Len(e.Entries) : e.Entries[i].Path = SpecialPathSymbol })

\* every branch below e, e included, has at most one child whose edge is ':'
RECURSIVE SentinelUnique(_)
SentinelUnique(e) ==
    /\ NumSentinels(e) <= 1
    /\ \A i \in 1..Len(e.Entries) : SentinelUnique(e.Entries[i])

RECURSIVE NoDirectoryType(_)
NoDirectoryType(e) ==
    /\ e.Content.Type # MIMEDriveDirectory
    /\ \A i \in 1..Len(e.Entries) : NoDirectoryType(e.Entries[i])

\* C14: in every reachable state no node stored in the trie has content type
\* MIMEDriveDirectory (callers pass entries built by NewEntry)
C14_NoDirectoryStored ==
    root # <<>> => NoDirectoryType(root[1])

\* AddFile refused a MIMEDriveDirectory entry on a trie that holds entries
C14_Witness ==
    /\ call.op = "AddFile"
    /\ call.err = ErrCantAddDirectory
    /\ root # <<>>

\* C15: a Content returned by File or Stat never has type MIMEDriveEntry; a
\* directory is reported as MIMEDriveDirectory
C15_NoEntryTypeReturned ==
    \A q \in ArgPaths :
        /\ File(root, q).err = ErrNil => File(root, q).cnt.Type # MIMEDriveEntry
        /\ Stat(root, q).err = ErrNil => Stat(root, q).cnt.Type # MIMEDriveEntry

\* File reports an empty folder and Stat a directory that holds a file, both as
\* MIMEDriveDirectory
C15_Witness ==
    /\ File(root, <<"/", "b">>).err = ErrNil
    /\ File(root, <<"/", "b">>).cnt.Type = MIMEDriveDirectory
    /\ File(root, <<"/", "a", "/", "b">>).err = ErrNil
    /\ File(root, <<"/", "a", "/", "b">>).cnt.Type = MIMEOctetStream
    /\ Stat(root, <<"/", "a">>).err = ErrNil
    /\ Stat(root, <<"/", "a">>).cnt.Type = MIMEDriveDirectory

\* C16: whenever File(path) succeeds the name of the returned content equals the
\* base (last segment) of the requested path; stated for the clean paths at which
\* callers add entries
C16_FileNameIsBase ==
    \A q \in FilePaths :
        File(root, q).err = ErrNil => File(root, q).cnt.Name = Base(q)

\* File answered with a directory
IsDirResult(r) == r.err = ErrNil /\ r.cnt.Type = MIMEDriveDirectory

\* C17: File(path) reports an empty folder if and only if the branch at path is
\* an empty-folder placeholder (its sentinel ':' child has type MIMEDriveEntry);
\* for every other branch or directory path File returns ErrFileNotExist
C17_FolderIffPlaceholder ==
    /\ \A q \in MarkersOf(root) : IsDirResult(File(root, q))
    /\ \A q \in DirsOf(root) \ MarkersOf(root) : File(root, q).err = ErrFileNotExist
    /\ \A q \in ArgPaths : IsDirResult(File(root, q)) => CleanPath(q) \in MarkersOf(root)

\* the names Ls(d) returns, in the order it returns them
LsNames(t, d) == [i \in 1..Len(Ls(t, d)) |-> Ls(t, d)[i].Name]

\* the immediate children of the root directory: the first segment of every
\* stored path
TopNames(t) ==
    { Split(Tail(s.path))[1] : s \in { x \in Stored(t) : Len(x.path) > 1 } }

Range(s) == { s[i] : i \in 1..Len(s) }

Pos(s, x) == CHOOSE i \in 1..Len(s) : s[i] = x

\* the names that s and t share are in the same order in both
KeepsOrder(s, t) ==
    \A i, j \in 1..Len(s) :
        (i < j /\ s[i] \in Range(t) /\ s[j] \in Range(t)) => Pos(t, s[i]) < Pos(t, s[j])

\* the names of t that s does not have come after those it has
NewLast(s, t) ==
    \A i, j \in 1..Len(t) : (t[i] \notin Range(s) /\ t[j] \in Range(s)) => j < i

\* the two ways callers name the root directory
RootDirs == { Separator, <<>> }

\* C18: Ls(path) returns the immediate children in child insertion order, and
\* that order is unchanged by later insertions and deletions of other entries;
\* stated for the root directory, in tries without the marker "/": Ls returns
\* exactly the children, an AddFile puts a new child after the ones listed
\* before, and AddFile and Delete keep the order of the others
C18_LsInsertionOrder ==
    /\ [](Separator \notin MarkersOf(root) =>
             \A d \in RootDirs : Range(LsNames(root, d)) = TopNames(root))
    /\ [][(call'.op \in {"AddFile", "Delete"} /\ Separator \notin MarkersOf(root')) =>
             \A d \in RootDirs :
                /\ KeepsOrder(LsNames(root, d), LsNames(root', d))
                /\ call'.op = "AddFile" =>
                       NewLast(LsNames(root, d), LsNames(root', d))]_vars

\* the caller's loop with the bound idx > 0: the first entry is never deleted
RECURSIVE deleteReverseSkipFirst(_, _, _, _)
deleteReverseSkipFirst(t, d, entries, idx) ==
    IF idx <= 1 THEN [t |-> t, err |-> ErrNil]
    ELSE LET r == DeleteCore(t, JoinPath(<<d \o entries[idx].Path>>))
         IN  IF r.err # ErrNil THEN r
             ELSE deleteReverseSkipFirst(r.t, d, entries, idx - 1)

\* the caller's loop over the entries of LsRecursive(d), last to first: each
\* entry is deleted by its path relative to d; the loop stops at the first error
RECURSIVE deleteReverse(_, _, _, _)
deleteReverse(t, d, entries, idx) ==
    IF idx = 0 THEN [t |-> t, err |-> ErrNil]
    ELSE LET r == DeleteCore(t, JoinPath(<<d \o entries[idx].Path>>))
         IN  IF r.err # ErrNil THEN r
             ELSE deleteReverse(r.t, d, entries, idx - 1)

\* LsRecursive(d) followed by the loop: [t, err]
RecursiveDelete(t, d) ==
    LET entries == LsRecursive(t, d)
    IN  deleteReverse(t, d, entries, Len(entries))

\* p is a path below the directory d
IsUnder(p, d) ==
    Len(p) > Len(d) + 1 /\ SubSeq(p, 1, Len(d) + 1) = d \o Separator

Under(t, d) == { s \in Stored(t) : IsUnder(s.path, d) }

\* d is a child of the root directory
TopLevel(d) == Len(d) > 1 /\ \A i \in 2..Len(d) : d[i] # SeparatorRune

\* d and what is below it are all the trie holds
OnlyContent(t, d) == \A s \in Stored(t) : s.path = d \/ IsUnder(s.path, d)

LsrPaths(t, d) ==
    [i \in 1..Len(LsRecursive(t, d)) |-> LsRecursive(t, d)[i].Path]

Distinct(s) == \A i, j \in 1..Len(s) : i # j => s[i] # s[j]

\* C20: in every reachable state (the marker "/" of the root directory itself
\* left aside) LsRecursive("/") returns one entry for every stored file or
\* reference and one for every directory: as many entries as there are such
\* paths, exactly those paths, each once
C20_LsRecursiveCount ==
    Separator \notin MarkersOf(root) =>
        /\ Len(LsRecursive(root, Separator)) =
               Cardinality(FilesOf(root) \cup DirsOf(root))
        /\ Range(LsrPaths(root, Separator)) = FilesOf(root) \cup DirsOf(root)
        /\ Distinct(LsrPaths(root, Separator))

\* e with cid, size and createdAt of the file leaf at path p blanked
RECURSIVE EraseAt(_, _, _)
EraseAt(e, prefix, p) ==
    LET full == IF e.Path = SpecialPathSymbol THEN prefix ELSE prefix \o e.Path
    IN  IF Len(e.Entries) = 0
        THEN IF full = p /\ e.Content.Type # MIMEDriveEntry
             THEN [e EXCEPT !.Content.CID = "", !.Content.Size = 0,
                            !.Content.CreatedAt = 0]
             ELSE e
        ELSE [e EXCEPT !.Entries =
                 [i \in 1..Len(e.Entries) |-> EraseAt(e.Entries[i], full, p)]]

Erased(t, p) == IF t = <<>> THEN <<>> ELSE <<EraseAt(t[1], <<>>, p)>>

\* C21: whenever Replace(path, c) succeeds, the trie afterwards differs from
\* the trie before at most in cid, size and createdAt of the file leaf at path,
\* File(path) shows the new cid and size with the name, type and version it
\* showed before, and the returned pair is (what File(path) now returns, what
\* File(path) returned before)
C21_ReplaceFrame ==
    \A path \in ReplacePaths, cnt \in ReplaceContents :
        LET r == ReplaceCore(root, path, cnt)
            before == File(root, path)
            after == File(r.t, path)
        IN  r.err = ErrNil =>
                /\ Erased(r.t, CleanPath(path)) = Erased(root, CleanPath(path))
                /\ after.err = ErrNil
                /\ after.cnt.CID = cnt.CID /\ after.cnt.Size = cnt.Size
                /\ after.cnt.Name = before.cnt.Name
                /\ after.cnt.Type = before.cnt.Type
                /\ after.cnt.Version = before.cnt.Version
                /\ r.new = after.cnt
                /\ r.old = before.cnt

\* C22: in every reachable state, Replace on a non-empty path that is not the
\* path of a stored file or reference (a directory, an empty-folder marker, or
\* a path that is not stored) returns ErrFileNotExist and leaves the trie as
\* it was
C22_ReplaceNotFile ==
    \A path \in ArgPaths, cnt \in ReplaceContents :
        (path # <<>> /\ CleanPath(path) \notin FilesOf(root)) =>
            LET r == ReplaceCore(root, path, cnt)
            IN  r.err = ErrFileNotExist /\ r.t = root

\* what is stored neither at p nor below it
Outside(t, p) == { s \in Stored(t) : s.path # p /\ ~IsUnder(s.path, p) }

\* C23: whenever CreateRef(path, bucketID, t) succeeds, File(path) afterwards
\* returns a MIMEReference content with cid bucketID, nothing is stored
\* strictly below path, and what was stored outside the subtree of path is
\* stored as before
C23_CreateRefExcises ==
    \A path \in ArgPaths :
        LET r == CreateRefCore(root, path, "bk", 2)
            p == CleanPath(path)
            f == File(r.t, path)
        IN  r.err = ErrNil =>
                /\ f.err = ErrNil
                /\ f.cnt.Type = MIMEReference
                /\ f.cnt.CID = "bk"
                /\ Under(r.t, p) = {}
                /\ Outside(r.t, p) = Outside(root, p)

\* the caller re-installs entries[i], ... in a secondary trie t: a directory is
\* added as an empty-folder marker; the loop stops at the first error
RECURSIVE reAdd(_, _, _)
reAdd(t, entries, i) ==
    IF i > Len(entries) THEN [t |-> t, err |-> ErrNil]
    ELSE LET d == entries[i]
             ty == IF d.Content.Type = MIMEDriveDirectory THEN MIMEDriveEntry
                   ELSE d.Content.Type
             r == AddFileCore(t, NewEntry(d.Path, d.Content.CID, d.Content.Size, ty, 2))
         IN  IF r.err # ErrNil THEN [t |-> t, err |-> r.err]
             ELSE reAdd(r.t, entries, i + 1)

\* the secondary trie built from the entries CreateRef returned
ReAdded(entries) == reAdd(<<>>, entries, 1)

\* the stored files and references below e, with what identifies their content
RECURSIVE FilesBelow(_, _)
FilesBelow(e, prefix) ==
    LET full == IF e.Path = SpecialPathSymbol THEN prefix ELSE prefix \o e.Path
    IN  IF Len(e.Entries) = 0
        THEN IF e.Content.Type = MIMEDriveEntry THEN {}
             ELSE {[path |-> full, type |-> e.Content.Type,
                    cid |-> e.Content.CID, size |-> e.Content.Size]}
        ELSE UNION { FilesBelow(e.Entries[i], full) : i \in 1..Len(e.Entries) }

StoredFiles(t) == IF t = <<>> THEN {} ELSE FilesBelow(t[1], <<>>)

\* q is p or a path below p
InSub(q, p) == q = p \/ IsUnder(q, p)

\* C24: whenever CreateRef(path) succeeds, the entries it returns are the
\* contents the subtree at path had before: one entry when path was a file or
\* an empty folder, one more than LsRecursive(path) otherwise, and adding them
\* in order to an empty trie succeeds and yields the files, references and
\* empty-folder markers that were stored at and below path
C24_CreateRefEntries ==
    \A path \in ArgPaths :
        LET r == CreateRefCore(root, path, "bk", 2)
            p == CleanPath(path)
            s == ReAdded(r.entries)
        IN  r.err = ErrNil =>
                /\ Len(r.entries) = 1 + Len(LsRecursive(root, p))
                /\ s.err = ErrNil
                /\ StoredFiles(s.t) = { x \in StoredFiles(root) : InSub(x.path, p) }
                /\ MarkersOf(s.t) = { q \in MarkersOf(root) : InSub(q, p) }

\* C25: in every reachable state CreateRef returns ErrEmptyPath for the empty
\* path, ErrCantCreateRef for the root path "/", and ErrFileNotExist for every
\* other path that is neither a stored file, reference or empty folder nor a
\* directory with entries below it
C25_CreateRefErrors ==
    /\ CreateRefCore(root, <<>>, "bk", 2).err = ErrEmptyPath
    /\ CreateRefCore(root, Separator, "bk", 2).err = ErrCantCreateRef
    /\ \A path \in ArgPaths \ {<<>>, Separator} :
           CleanPath(path) \notin FilesOf(root) \cup DirsOf(root) =>
               CreateRefCore(root, path, "bk", 2).err = ErrFileNotExist

----------------------------------------------------------------------------
(* Hash and the JSON form.  The text is a sequence of tokens: the           *)
(* punctuation of JSON, one token for a number, for null and for a cid or   *)
(* content type, and the bytes of a name or path.  The encoder writes the   *)
(* fields of a node in the order of the struct: the embedded Content first, *)
(* then path and entries; meta is nil and omitted.  A nil and an empty      *)
(* entries slice are one value here and are written as null.                *)

Quote == "\""

\* the escape the encoder writes for a byte that is not part of a valid rune
EscFFFD == "\\ufffd"

\* encoding/json coerces a string to valid UTF-8
RECURSIVE Coerce(_)
Coerce(s) ==
    IF Len(s) = 0 THEN <<>>
    ELSE IF s[1] \in LeadBytes /\ Len(s) >= 2 /\ s[2] \in ContBytes
    THEN <<s[1], s[2]>> \o Coerce(SubSeq(s, 3, Len(s)))
    ELSE IF s[1] \in LeadBytes \cup ContBytes
    THEN <<EscFFFD>> \o Coerce(Tail(s))
    ELSE <<s[1]>> \o Coerce(Tail(s))

\* a Go string of bytes as a JSON string
EncodeString(s) == <<Quote>> \o Coerce(s) \o <<Quote>>

\* a cid or content type, a string the model keeps whole
EncodeAtom(a) == <<Quote>> \o (IF a = "" THEN <<>> ELSE <<a>>) \o <<Quote>>

EncodeKey(k) == <<Quote, k, Quote, ":">>

RECURSIVE EncodeEntry(_), EncodeFrom(_, _)
\* the elements es[i], ... of a JSON array
EncodeFrom(es, i) ==
    IF i > Len(es) THEN <<>>
    ELSE (IF i > 1 THEN <<",">> ELSE <<>>) \o EncodeEntry(es[i])
             \o EncodeFrom(es, i + 1)

\* the JSON object of an Entry
EncodeEntry(e) ==
    <<"{">> \o EncodeKey("name") \o EncodeString(e.Content.Name)
        \o <<",">> \o EncodeKey("cid") \o EncodeAtom(e.Content.CID)
        \o <<",">> \o EncodeKey("content_type") \o EncodeAtom(e.Content.Type)
        \o <<",">> \o EncodeKey("size") \o <<ToString(e.Content.Size)>>
        \o <<",">> \o EncodeKey("version") \o <<ToString(e.Content.Version)>>
        \o <<",">> \o EncodeKey("created_at") \o <<ToString(e.Content.CreatedAt)>>
        \o <<",">> \o EncodeKey("path") \o EncodeString(e.Path)
        \o <<",">> \o EncodeKey("entries")
        \o (IF Len(e.Entries) = 0 THEN <<"null">>
            ELSE <<"[">> \o EncodeFrom(e.Entries, 1) \o <<"]">>)
        \o <<"}">>

\* json.Marshal(trie): the object of the Trie
Marshal(t) ==
    <<"{">> \o EncodeKey("root")
        \o (IF t = <<>> THEN <<"null">> ELSE EncodeEntry(t[1])) \o <<"}">>

\* json.NewEncoder(buf).Encode(mt): the same object and a newline
Encode(t) == Marshal(t) \o <<"\n">>

\* the SHA-256 digest in hex, taken as a collision-free function of its input
Sum(bytes) == <<"sha256", bytes>>

Hash(t) == Sum(Encode(t))

\* the bytes of U+FFFD, kept together as one rune
ReplacementRune == "EFBFBD"

\* the decoder's reading of the characters of a JSON string
Unescape(toks) ==
    [i \in 1..Len(toks) |-> IF toks[i] = EscFFFD THEN ReplacementRune ELSE toks[i]]

\* the numbers that occur in a Content
Numbers == 0..9

\* position of the first Quote at or after i
RECURSIVE QuoteAt(_, _)
QuoteAt(toks, i) == IF toks[i] = Quote THEN i ELSE QuoteAt(toks, i + 1)

\* The decoder: each Parse operator reads one JSON value from the front of
\* toks and returns what it read and the tokens that follow.
RECURSIVE ParseValue(_), ParseElems(_), ParseMembers(_)

\* a string, a number, null, an array or an object
ParseValue(toks) ==
    IF toks[1] = Quote
    THEN LET j == QuoteAt(toks, 2)
         IN  [v |-> [k |-> "s", s |-> Unescape(SubSeq(toks, 2, j - 1))],
              rest |-> SubSeq(toks, j + 1, Len(toks))]
    ELSE IF toks[1] = "null"
    THEN [v |-> [k |-> "null"], rest |-> Tail(toks)]
    ELSE IF toks[1] = "["
    THEN LET r == ParseElems(Tail(toks))
         IN  [v |-> [k |-> "a", a |-> r.v], rest |-> r.rest]
    ELSE IF toks[1] = "{"
    THEN LET r == ParseMembers(Tail(toks))
         IN  [v |-> [k |-> "o", o |-> r.v], rest |-> r.rest]
    ELSE [v |-> [k |-> "n", n |-> CHOOSE n \in Numbers : ToString(n) = toks[1]],
          rest |-> Tail(toks)]

\* the elements of an array up to its closing bracket
ParseElems(toks) ==
    IF toks[1] = "]" THEN [v |-> <<>>, rest |-> Tail(toks)]
    ELSE LET e == ParseValue(IF toks[1] = "," THEN Tail(toks) ELSE toks)
             r == ParseElems(e.rest)
         IN  [v |-> <<e.v>> \o r.v, rest |-> r.rest]

\* the members of an object up to its closing brace: [key, val] in order
ParseMembers(toks) ==
    IF toks[1] = "}" THEN [v |-> <<>>, rest |-> Tail(toks)]
    ELSE LET key == ParseValue(IF toks[1] = "," THEN Tail(toks) ELSE toks)
             val == ParseValue(Tail(key.rest))
             r == ParseMembers(val.rest)
         IN  [v |-> <<[key |-> key.v.s, val |-> val.v]>> \o r.v, rest |-> r.rest]

\* the members of the object o whose key is the field tag
Members(o, tag) == SelectSeq(o, LAMBDA m : m.key = <<tag>>)

HasField(o, tag) == Len(Members(o, tag)) > 0

\* the value of the last such member
Field(o, tag) == Members(o, tag)[Len(Members(o, tag))].val

\* a string field of bytes, a string field the model keeps whole, an integer
\* field; a missing or null member leaves the zero value
BytesField(o, tag) ==
    IF HasField(o, tag) /\ Field(o, tag).k = "s" THEN Field(o, tag).s ELSE <<>>

AtomField(o, tag) ==
    IF HasField(o, tag) /\ Field(o, tag).k = "s" /\ Len(Field(o, tag).s) > 0
    THEN Field(o, tag).s[1] ELSE ""

IntField(o, tag) ==
    IF HasField(o, tag) /\ Field(o, tag).k = "n" THEN Field(o, tag).n ELSE 0

\* the Entry the decoder fills from an object
RECURSIVE DecodeEntry(_)
DecodeEntry(o) ==
    [Content |-> [Name |-> BytesField(o, "name"),
                  CID |-> AtomField(o, "cid"),
                  Type |-> AtomField(o, "content_type"),
                  Size |-> IntField(o, "size"),
                  Version |-> IntField(o, "version"),
                  CreatedAt |-> IntField(o, "created_at")],
     Path |-> BytesField(o, "path"),
     Entries |-> IF HasField(o, "entries") /\ Field(o, "entries").k = "a"
                 THEN [i \in 1..Len(Field(o, "entries").a) |->
                          DecodeEntry(Field(o, "entries").a[i].o)]
                 ELSE <<>>]

\* json.Unmarshal(data, &trie2) into an empty Trie: Trie.Root
Unmarshal(data) ==
    LET o == ParseValue(data).v.o
    IN  IF HasField(o, "root") /\ Field(o, "root").k = "o"
        THEN <<DecodeEntry(Field(o, "root").o)>>
        ELSE <<>>

\* the trie a caller gets back from the JSON form of t
RoundTrip(t) == Unmarshal(Marshal(t))

----------------------------------------------------------------------------
(* Callers that pass paths with bytes above ASCII: the two-byte runes       *)
(* C3 A0 and C3 A1, and the bytes A0 and A1 alone, which are not UTF-8.     *)

Utf8Paths ==
    { <<"/", "C3", "A0">>, <<"/", "C3", "A1">>, <<"/", "A0">>, <<"/", "A1">>,
      <<"/", "a">> }

Utf8Entries ==
    { NewEntry(p, "c1", 5, ty, 1) :
          p \in Utf8Paths, ty \in {MIMEOctetStream, MIMEDriveEntry} }

NextUtf8 ==
    \/ \E m \in Utf8Entries : AddFile(m)
    \/ \E path \in Utf8Paths : Delete(path)

SpecUtf8 == Init /\ [][NextUtf8]_vars

\* C26: two states that differ have different hashes: the hash of the trie
\* differs from the hash of every other trie that holds a single entry, a
\* call that changes the trie changes the hash, and a call that leaves the
\* trie as it was leaves the hash as it was
C26_HashTracksState ==
    /\ [](\A m \in Utf8Entries :
             LET t == AddFileCore(<<>>, m).t
             IN  t # root => Hash(t) # Hash(root))
    /\ [][/\ root' # root => Hash(root') # Hash(root)
          /\ root' = root => Hash(root') = Hash(root)]_vars

\* the paths a caller asks for after the round trip
RoundTripPaths == Utf8Paths \cup { <<>>, Separator }

\* C27: in every reachable state the trie read back from the JSON form of the
\* trie answers Ls, LsRecursive, File and Stat on every path as the trie does
C27_RoundTripObservable ==
    \A q \in RoundTripPaths :
        /\ Ls(RoundTrip(root), q) = Ls(root, q)
        /\ LsRecursive(RoundTrip(root), q) = LsRecursive(root, q)
        /\ File(RoundTrip(root), q) = File(root, q)
        /\ Stat(RoundTrip(root), q) = Stat(root, q)

----------------------------------------------------------------------------
(* Concurrent callers.  Every public operation takes Trie.lock in its first *)
(* statements and releases it by defer when it returns.  A writer holds the *)
(* lock while its in-place writes reach the trie one after the other; a     *)
(* reader computes its result while it holds the read lock.                 *)

\* the paths each writer adds below the directory /a
OwnPaths(t) ==
    IF t = "w1" THEN { <<"/", "a", "/", "a">>, <<"/", "a", "/", "a", "b">> }
    ELSE { <<"/", "a", "/", "b">>, <<"/", "a", "/", "b", "b">> }

\* the path each writer replaces, deletes and converts to a reference
FirstPath(t) ==
    IF t = "w1" THEN <<"/", "a", "/", "a">> ELSE <<"/", "a", "/", "b">>

ConcDir == <<"/", "a">>

Op(kind, path, m, cnt) == [kind |-> kind, path |-> path, m |-> m, cnt |-> cnt]

WriterOps(t) ==
    { Op("AddFile", p, NewEntry(p, "c1", 5, MIMEOctetStream, 1), <<>>) : p \in OwnPaths(t) }
    \cup { Op("Replace", FirstPath(t), <<>>, c) : c \in ReplaceContents }
    \cup { Op("Delete", FirstPath(t), <<>>, <<>>),
           Op("CreateRef", FirstPath(t), <<>>, <<>>) }

ReaderOps ==
    { Op("Ls", <<>>, <<>>, <<>>), Op("Ls", ConcDir, <<>>, <<>>),
      Op("LsRecursive", ConcDir, <<>>, <<>>),
      Op("File", <<"/", "a", "/", "a">>, <<>>, <<>>),
      Op("Stat", <<"/", "a", "/", "b">>, <<>>, <<>>),
      Op("Hash", <<>>, <<>>, <<>>) }

\* what a read operation returns on the trie t
ReadOp(t, op) ==
    CASE op.kind = "Ls" -> Ls(t, op.path)
      [] op.kind = "LsRecursive" -> LsRecursive(t, op.path)
      [] op.kind = "File" -> File(t, op.path)
      [] op.kind = "Stat" -> Stat(t, op.path)
      [] OTHER -> Hash(t)

\* the trie of createRef between its removal loop and the insertion of the
\* reference
CreateRefMid(t, path) ==
    IF Len(path) = 0 \/ path = Separator \/ t = <<>> THEN t
    ELSE LET p == CleanPath(path)
             f == find(p, t[1], <<>>)
             e == listRecursive(p, p, t[1])
             entries == IF f # <<>>
                        THEN <<[Content |-> f[1].cnt, Path |-> <<>>, Entries |-> <<>>]>>
                        ELSE <<[Content |-> NewContent(<<>>, "", 0, MIMEDriveEntry, 2),
                                Path |-> <<>>, Entries |-> <<>>]>> \o e
         IN  IF f = <<>> /\ Len(e) = 0 THEN t
             ELSE createRefRemove(t, entries, p, Len(entries)).t

\* the tries the writes of Replace leave one after the other: f.CID, f.Size,
\* f.CreatedAt
ReplaceStages(t, path, cnt, r) ==
    IF r.err # ErrNil THEN <<t>>
    ELSE LET f == find(CleanPath(path), t[1], <<>>)
         IN  IF f[1].ref = Fresh THEN <<t>>
             ELSE LET c1 == [f[1].cnt EXCEPT !.CID = cnt.CID]
                      c2 == [c1 EXCEPT !.Size = cnt.Size]
                  IN  << <<SetContentAt(t[1], f[1].ref, c1)>>,
                         <<SetContentAt(t[1], f[1].ref, c2)>>,
                         r.t >>

\* a write operation started on the trie t: [stages, err], stages being the
\* tries it leaves in memory one after the other, the last one its result
WriteOp(t, op) ==
    CASE op.kind = "AddFile" ->
            LET r == AddFileCore(t, op.m) IN [stages |-> <<r.t>>, err |-> r.err]
      [] op.kind = "Delete" ->
            LET r == DeleteCore(t, op.path) IN [stages |-> <<r.t>>, err |-> r.err]
      [] op.kind = "Replace" ->
            LET r == ReplaceCore(t, op.path, op.cnt)
            IN  [stages |-> ReplaceStages(t, op.path, op.cnt, r), err |-> r.err]
      [] OTHER ->
            LET r == CreateRefCore(t, op.path, "bk", 2)
            IN  [stages |-> <<CreateRefMid(t, op.path), r.t>>, err |-> r.err]

\* a reader that takes the read lock whatever the state of the lock
CanRLockAlways(l) == TRUE

\* sync.RWMutex: RLock waits for the writer, Lock for the writer and the readers
CanRLock(l) == l.writer = NoThread

\* a writer that takes the lock whatever the state of the lock
CanLockAlways(l) == TRUE

CanLock(l) == l.writer = NoThread /\ l.readers = {}

\* mt.lock.Lock() at the start of a write operation; what the operation will
\* write follows from the trie it finds, which no other goroutine may change
\* while it holds the lock
Lock(t, op) ==
    /\ nops < MaxOps
    /\ thr[t].pc = "idle"
    /\ CanLock(lock)
    /\ lock' = [lock EXCEPT !.writer = t]
    /\ thr' = [thr EXCEPT ![t] = [Idle EXCEPT !.pc = "write", !.op = op, !.start = root,
                                              !.w = WriteOp(root, op)]]
    /\ nops' = nops + 1
    /\ UNCHANGED <<root, call, pure, added, hist>>

\* the next in-place write of the operation
WriteStep(t) ==
    /\ thr[t].pc = "write"
    /\ thr[t].stage < Len(thr[t].w.stages)
    /\ root' = thr[t].w.stages[thr[t].stage + 1]
    /\ thr' = [thr EXCEPT ![t].stage = @ + 1]
    /\ UNCHANGED <<call, nops, pure, added, lock, hist>>

\* a write operation that leaves the lock held when it returns an error
UnlockOnSuccess(t) ==
    LET op == thr[t].op
        err == thr[t].w.err
    IN  /\ thr[t].pc = "write"
        /\ thr[t].stage = Len(thr[t].w.stages)
        /\ lock' = IF err = ErrNil THEN [lock EXCEPT !.writer = NoThread] ELSE lock
        /\ hist' = Append(hist, root)
        /\ thr' = [thr EXCEPT ![t] = [Idle EXCEPT !.op = op, !.res = <<err>>]]
        /\ call' = Call(op.kind, op.path, err, FALSE, root # thr[t].start)
        /\ pure' = (pure /\ op.kind = "AddFile" /\ err # ErrConflict)
        /\ added' = IF ~pure' THEN {}
                    ELSE IF err = ErrNil
                    THEN added \cup {[path |-> op.path, dir |-> FALSE]}
                    ELSE added
        /\ UNCHANGED <<root, nops>>

\* the deferred mt.lock.Unlock() when the operation returns
Unlock(t) ==
    LET op == thr[t].op
        err == thr[t].w.err
    IN  /\ thr[t].pc = "write"
        /\ thr[t].stage = Len(thr[t].w.stages)
        /\ lock' = [lock EXCEPT !.writer = NoThread]
        /\ hist' = Append(hist, root)
        /\ thr' = [thr EXCEPT ![t] = [Idle EXCEPT !.op = op, !.res = <<err>>]]
        /\ call' = Call(op.kind, op.path, err, FALSE, root # thr[t].start)
        /\ pure' = (pure /\ op.kind = "AddFile" /\ err # ErrConflict)
        /\ added' = IF ~pure' THEN {}
                    ELSE IF err = ErrNil
                    THEN added \cup {[path |-> op.path, dir |-> FALSE]}
                    ELSE added
        /\ UNCHANGED <<root, nops>>

\* mt.lock.RLock() at the start of a read operation
RLock(t, op) ==
    /\ nops < MaxOps
    /\ thr[t].pc = "idle"
    /\ CanRLock(lock)
    /\ lock' = [lock EXCEPT !.readers = @ \cup {t}]
    /\ thr' = [thr EXCEPT ![t] = [Idle EXCEPT !.pc = "read", !.op = op]]
    /\ nops' = nops + 1
    /\ UNCHANGED <<root, call, pure, added, hist>>

\* the read operation computes its result; Ls returns the pointers of list
ReadStep(t) ==
    /\ thr[t].pc = "read"
    /\ thr[t].stage = 0
    /\ thr' = [thr EXCEPT ![t].stage = 1,
                          ![t].res = <<ReadOp(root, thr[t].op)>>,
                          ![t].ptrs = IF thr[t].op.kind = "Ls"
                                      THEN LsPtrs(root, thr[t].op.path) ELSE <<>>,
                          ![t].seen = root]
    /\ UNCHANGED <<root, call, nops, pure, added, lock, hist>>

\* the deferred mt.lock.RUnlock()
RUnlock(t) ==
    /\ thr[t].pc = "read"
    /\ thr[t].stage = 1
    /\ lock' = [lock EXCEPT !.readers = @ \ {t}]
    /\ thr' = [thr EXCEPT ![t].pc = "idle", ![t].stage = 0]
    /\ UNCHANGED <<root, call, nops, pure, added, hist>>

\* t with cid, size and createdAt of every node blanked: the nodes and where
\* they are
RECURSIVE ShapeOf(_)
ShapeOf(e) ==
    [Content |-> [e.Content EXCEPT !.CID = "", !.Size = 0, !.CreatedAt = 0],
     Path |-> e.Path,
     Entries |-> [i \in 1..Len(e.Entries) |-> ShapeOf(e.Entries[i])]]

SameShape(s, t) ==
    IF s = <<>> \/ t = <<>> THEN s = t ELSE ShapeOf(s[1]) = ShapeOf(t[1])

\* after Ls has returned, the caller reads the Content its i-th pointer points
\* to; the pointer is followed while the nodes are where Ls found them
Use(t, i) ==
    /\ thr[t].pc = "idle"
    /\ i <= Len(thr[t].ptrs)
    /\ thr[t].ptrs[i].ref # Fresh
    /\ root # <<>>
    /\ SameShape(root, thr[t].seen)
    /\ thr' = [thr EXCEPT ![t].used = <<ContentAt(root[1], thr[t].ptrs[i].ref)>>,
                          ![t].ptrs = <<>>]
    /\ UNCHANGED <<root, call, nops, pure, added, lock, hist>>

NextConc ==
    \/ \E t \in Writers : \E op \in WriterOps(t) : Lock(t, op)
    \/ \E t \in Writers : WriteStep(t)
    \/ \E t \in Writers : Unlock(t)
    \/ \E t \in Readers : \E op \in ReaderOps : RLock(t, op)
    \/ \E t \in Readers : ReadStep(t)
    \/ \E t \in Readers : RUnlock(t)
    \/ \E t \in Readers, i \in 1..MaxLs : Use(t, i)

SpecConc == Init /\ [][NextConc]_vars

----------------------------------------------------------------------------
\* a thread is inside the body of an operation, between taking and releasing
\* the lock
Accessing(t) == thr[t].pc \in {"write", "read"}

\* C28: a write operation holds the write lock from its first access to its
\* return, and while a writer is inside an operation no other thread, writer
\* or reader, is inside one.
C28_WritersExclusive ==
    \A t \in Writers :
        Accessing(t) =>
            /\ lock.writer = t
            /\ lock.readers = {}
            /\ \A u \in Threads \ {t} : ~Accessing(u)

\* a writer is between two of its in-place writes after the reader has
\* completed an operation
C28_Witness ==
    \E t \in Writers :
        /\ thr[t].pc = "write"
        /\ thr[t].stage >= 1
        /\ thr[t].stage < Len(thr[t].w.stages)
        /\ \E r \in Readers : thr[r].res # <<>>

----------------------------------------------------------------------------
Last(s) == s[Len(s)]

\* the Contents stored in the nodes of the trie below e
RECURSIVE ContentsOf(_)
ContentsOf(e) ==
    {e.Content} \cup UNION { ContentsOf(e.Entries[i]) : i \in 1..Len(e.Entries) }

\* C29: the writes take effect one after the other, each on the state the
\* previous one committed (hist is that order); every result of a read
\* operation is the result of that operation on one of the committed states;
\* and a Content a reader obtains from a read operation is, when the reader
\* looks at it, a Content stored in one of the committed states, never a
\* partly written one.
C29_Linearizable ==
    /\ \A t \in Writers : thr[t].pc = "write" => thr[t].start = Last(hist)
    /\ lock.writer = NoThread => root = Last(hist)
    /\ \A t \in Readers :
          thr[t].res # <<>> =>
              \E k \in 1..Len(hist) : thr[t].res[1] = ReadOp(hist[k], thr[t].op)
    /\ \A t \in Readers :
          thr[t].used # <<>> =>
              \E k \in 1..Len(hist) :
                  hist[k] # <<>> /\ thr[t].used[1] \in ContentsOf(hist[k][1])

----------------------------------------------------------------------------
\* no thread is inside an operation
AllDone == \A t \in Threads : thr[t].pc = "idle"

\* C30: when the writers have only added files below the directory /a, each its
\* own paths, while the reader ran, and every thread has returned, LsRecursive
\* of /a returns every added path (relative to /a) at exactly one index and
\* returns nothing else.
C30_ConcurrentAdds ==
    (AllDone /\ pure) =>
        /\ \A a \in added :
              Cardinality({ i \in 1..Len(LsRecursive(root, ConcDir)) :
                              ConcDir \o LsrPaths(root, ConcDir)[i] = a.path }) = 1
        /\ \A i \in 1..Len(LsRecursive(root, ConcDir)) :
              \E a \in added : ConcDir \o LsrPaths(root, ConcDir)[i] = a.path

\* both writers have added files, three in all, the reader has read, and
\* every thread has returned
C30_Witness ==
    /\ AllDone /\ pure
    /\ \E a, b \in added : a.path \in OwnPaths("w1") /\ b.path \in OwnPaths("w2")
    /\ Cardinality(added) >= 3
    /\ \E r \in Readers : thr[r].res # <<>>

----------------------------------------------------------------------------
\* s is valid UTF-8: every lead byte is followed by a continuation byte and
\* every continuation byte follows a lead byte
ValidString(s) ==
    \A i \in 1..Len(s) :
        /\ s[i] \in LeadBytes => (i < Len(s) /\ s[i + 1] \in ContBytes)
        /\ s[i] \in ContBytes => (i > 1 /\ s[i - 1] \in LeadBytes)

\* C31: in every reachable state AddFile of an entry whose path is not valid
\* UTF-8 returns an error and leaves the trie as it was.
C31_InvalidUtf8Rejected ==
    \A m \in Utf8Entries :
        ~ValidString(m.Path) =>
            /\ AddFileCore(root, m).err # ErrNil
            /\ AddFileCore(root, m).t = root

----------------------------------------------------------------------------
\* the edge labels of the trie below e
RECURSIVE LabelsOf(_)
LabelsOf(e) ==
    {e.Path} \cup UNION { LabelsOf(e.Entries[i]) : i \in 1..Len(e.Entries) }

\* the first n bytes of s end where a rune of s ends
OnBoundary(s, n) == n = Len(s) \/ RuneStart(s[n + 1])

\* p and q are the same up to the continuation byte that ends them
InsideRune(p, q) ==
    /\ Len(p) = Len(q) /\ p # q /\ Len(p) >= 2
    /\ SubSeq(p, 1, Len(p) - 1) = SubSeq(q, 1, Len(q) - 1)
    /\ p[Len(p)] \in ContBytes /\ q[Len(q)] \in ContBytes

\* C32: in every reachable state every edge label begins with the first byte
\* of a rune and does not end with the lead byte of a cut rune; the common
\* prefix of two valid UTF-8 paths ends on a rune boundary of both; and two
\* stored files whose paths differ only in the last byte of a multi-byte rune
\* are both returned by File.
C32_RuneSafety ==
    /\ root # <<>> =>
          \A l \in LabelsOf(root[1]) :
              Len(l) > 0 => (RuneStart(l[1]) /\ l[Len(l)] \notin LeadBytes)
    /\ \A a, b \in { p \in Utf8Paths : ValidString(p) } :
          /\ OnBoundary(a, Len(commonPrefix(a, b)))
          /\ OnBoundary(b, Len(commonPrefix(a, b)))
    /\ \A p, q \in FilesOf(root) :
          InsideRune(p, q) => File(root, p).err = ErrNil /\ File(root, q).err = ErrNil

----------------------------------------------------------------------------
\* the paths of the leaves the trie stores
StoredPaths(t) == { s.path : s \in Stored(t) }

\* C33: in every reachable state Delete of the empty path returns ErrEmptyPath,
\* Delete of a path that is the path of no stored leaf returns nil, and
\* neither changes the trie.
C33_DeleteNoMatch ==
    \A path \in ArgPaths :
        /\ path = <<>> =>
              /\ DeleteCore(root, path).err = ErrEmptyPath
              /\ DeleteCore(root, path).t = root
        /\ (path # <<>> /\ CleanPath(path) \notin StoredPaths(root)) =>
              /\ DeleteCore(root, path).err = ErrNil
              /\ DeleteCore(root, path).t = root

----------------------------------------------------------------------------
\* q is p followed by more characters of the same name, as /logo.png(1) is
\* /logo.png followed by (1)
Extends(q, p) ==
    HasPrefix(q, p) /\ Len(q) > Len(p) /\ q[Len(p) + 1] # SeparatorRune

\* the valid file entries of the callers at the paths of FilePaths
FileEntries ==
    { m \in CallerEntries :
        m.Content.Type = MIMEOctetStream /\ m.Path \in FilePaths /\ Validate(m).err = ErrNil }

\* C34: in every reachable state that stores two files p and q, q extending p,
\* once Delete(q) has removed q, AddFile of any file entry at q returns no
\* error, File(q) then returns the content of that entry, and File(p) returns
\* what it returned before the two calls.
C34_ReAddAfterDelete ==
    \A p, q \in FilePaths :
        (Extends(q, p) /\ p \in FilesOf(root) /\ q \in FilesOf(root)) =>
            LET t1 == DeleteCore(root, q).t
            IN  /\ File(t1, q).err = ErrFileNotExist
                /\ \A m \in FileEntries :
                      m.Path = q =>
                          LET r == AddFileCore(t1, m)
                          IN  /\ r.err = ErrNil
                              /\ File(r.t, q).err = ErrNil
                              /\ File(r.t, q).cnt = m.Content
                              /\ File(r.t, p).err = ErrNil
                              /\ File(r.t, p) = File(root, p)

\* /a and /ab are stored files, /ab with the cid c1, and a caller has an entry
\* for /ab with another cid
C34_Witness ==
    /\ <<"/", "a">> \in FilesOf(root)
    /\ <<"/", "a", "b">> \in FilesOf(root)
    /\ File(root, <<"/", "a", "b">>).cnt.CID = "c1"
    /\ \E m \in FileEntries : m.Path = <<"/", "a", "b">> /\ m.Content.CID = "c2"

----------------------------------------------------------------------------
(* Tree.  Go tells a nil slice from an empty one; the entries Tree builds   *)
(* carry NilEntries, TRUE while Entries is the nil slice NewEntry leaves.   *)

\* NewEntry as Tree and directoriesFromContents call it: Entries is nil
TreeEntry(path, size, contentType, createdAt) ==
    [Content |-> NewEntry(path, "", size, contentType, createdAt).Content,
     Path |-> path,
     Entries |-> <<>>,
     NilEntries |-> TRUE]

IsDirType(ty) == ty = MIMEDriveDirectory \/ ty = MIMEDriveEntry

\* directoriesFromContents over contents[i..]
RECURSIVE directoriesFromContents(_, _, _)
directoriesFromContents(path, contents, i) ==
    IF i > Len(contents) THEN <<>>
    ELSE (IF IsDirType(contents[i].cnt.Type)
          THEN <<TreeEntry(JoinPath(<<path, contents[i].cnt.Name>>),
                           contents[i].cnt.Size, contents[i].cnt.Type,
                           contents[i].cnt.CreatedAt)>>
          ELSE <<>>)
         \o directoriesFromContents(path, contents, i + 1)

RECURSIVE tree(_, _, _)
tree(dir, path, subtrie) ==
    LET all == dir.Entries \o directoriesFromContents(path, list(path, subtrie, <<>>), 1)
    IN  [dir EXCEPT
            !.NilEntries = FALSE,
            !.Entries = [i \in 1..Len(all) |->
                            IF IsDirType(all[i].Content.Type)
                            THEN tree(all[i],
                                      JoinPath(<<path, all[i].Content.Name>>),
                                      subtrie)
                            ELSE all[i]]]

Tree(t, path) ==
    LET p == CleanPath(path)
        dir == TreeEntry(IF p = <<>> THEN Separator ELSE p, 0, MIMEDriveDirectory, ClockNow)
    IN  IF t = <<>> THEN dir ELSE tree(dir, p, t[1])

RECURSIVE OnlyDirs(_)
\* every node of the entry e is a directory
OnlyDirs(e) ==
    /\ IsDirType(e.Content.Type)
    /\ \A i \in 1..Len(e.Entries) : OnlyDirs(e.Entries[i])

RECURSIVE NoNil(_)
\* no node of the entry e has the nil slice as its Entries
NoNil(e) == ~e.NilEntries /\ \A i \in 1..Len(e.Entries) : NoNil(e.Entries[i])

\* C35: in every reachable state, the empty trie included, and for every path,
\* Tree returns an entry of type MIMEDriveDirectory whose nodes are all
\* directories and all carry a non-nil list of children.
C35_TreeSkeleton ==
    \A path \in ArgPaths :
        /\ Tree(root, path).Content.Type = MIMEDriveDirectory
        /\ OnlyDirs(Tree(root, path))
        /\ NoNil(Tree(root, path))

----------------------------------------------------------------------------
\* the files, references and directories the trie t holds
Listed(t) == FilesOf(t) \cup DirsOf(t)

\* the paths of the created entries an AddFile result r reports
CreatedPaths(r) == [i \in 1..Len(r.entries) |-> r.entries[i].Path]

\* C36: in every state reached from the empty trie by AddFile calls without
\* conflict, a further AddFile that succeeds reports, each once, exactly the
\* files and directories the trie holds after it and did not hold before it;
\* so the reported lists, taken together, hold every file and directory once.
C36_CreatedEntries ==
    pure =>
        \A m \in CallerEntries :
            LET r == AddFileCore(root, m)
            IN  r.err = ErrNil =>
                    /\ Distinct(CreatedPaths(r))
                    /\ Range(CreatedPaths(r)) = Listed(r.t) \ Listed(root)

----------------------------------------------------------------------------
(* What the read operations leave of the trie.  find hands the *Content it  *)
(* found to updateFolderEntry at every level on the way back, and           *)
(* updateFolderEntry writes through that pointer; list, collect, stat,      *)
(* listRecursive, tree and Hash assign to nothing but their own values.     *)

\* the trie after File(path): the Content find returns is the one at ref, with
\* whatever updateFolderEntry has written into it
AfterFile(t, path) ==
    IF Len(path) = 0 \/ t = <<>> THEN t
    ELSE LET f == find(CleanPath(path), t[1], <<>>)
         IN  IF f = <<>> THEN t
             ELSE IF f[1].ref = Fresh THEN t
             ELSE <<SetContentAt(t[1], f[1].ref, f[1].cnt)>>

ReadKinds == {"Ls", "LsRecursive", "Tree", "File", "Stat", "Hash"}

\* the trie after the read operation kind on path
AfterRead(kind, t, path) == IF kind = "File" THEN AfterFile(t, path) ELSE t

\* C37: in every reachable state and for every path, the trie after Ls,
\* LsRecursive, Tree, File, Stat or Hash is the trie before it, and so is its
\* Hash.
C37_ReadsDoNotModify ==
    \A kind \in ReadKinds, path \in ArgPaths :
        /\ AfterRead(kind, root, path) = root
        /\ Hash(AfterRead(kind, root, path)) = Hash(root)

\* File finds a file stored in a node below the root: find has passed the
\* address of the stored Content to updateFolderEntry on the way back
C37_Witness ==
    /\ root # <<>>
    /\ \E path \in ArgPaths :
          LET f == find(CleanPath(path), root[1], <<>>)
          IN  /\ Len(path) > 0
              /\ f # <<>>
              /\ f[1].ref # Fresh
              /\ Len(f[1].ref) >= 1

----------------------------------------------------------------------------
(* Callers that wait for the lock.  A call is made (Request), blocks in     *)
(* mt.lock.Lock() or mt.lock.RLock() until the lock is free (AcquireW,      *)
(* AcquireR), runs, and returns through its deferred Unlock or RUnlock.     *)

\* the write operations of writer t: one that succeeds and others that return
\* errors (a second AddFile of the path, Replace and CreateRef of a missing path)
LockWriterOps(t) ==
    { op \in WriterOps(t) : op.path = FirstPath(t) /\ op.kind # "Delete" }

LockReaderOps == { op \in ReaderOps : op.kind \in {"File", "LsRecursive"} }

\* the call is made and reaches its first statement, the acquisition of the lock
Request(t, op) ==
    /\ nops < MaxOps
    /\ thr[t].pc = "idle"
    /\ thr' = [thr EXCEPT ![t] = [Idle EXCEPT !.pc = "wait", !.op = op]]
    /\ nops' = nops + 1
    /\ UNCHANGED <<root, call, pure, added, lock, hist>>

\* mt.lock.Lock() returns
AcquireW(t) ==
    /\ thr[t].pc = "wait"
    /\ CanLock(lock)
    /\ lock' = [lock EXCEPT !.writer = t]
    /\ thr' = [thr EXCEPT ![t].pc = "write", ![t].start = root,
                          ![t].w = WriteOp(root, thr[t].op)]
    /\ UNCHANGED <<root, call, nops, pure, added, hist>>

\* mt.lock.RLock() returns
AcquireR(t) ==
    /\ thr[t].pc = "wait"
    /\ CanRLock(lock)
    /\ lock' = [lock EXCEPT !.readers = @ \cup {t}]
    /\ thr' = [thr EXCEPT ![t].pc = "read"]
    /\ UNCHANGED <<root, call, nops, pure, added, hist>>

NextLock ==
    \/ \E t \in Writers : \E op \in LockWriterOps(t) : Request(t, op)
    \/ \E t \in Readers : \E op \in LockReaderOps : Request(t, op)
    \/ \E t \in Writers : AcquireW(t)
    \/ \E t \in Writers : WriteStep(t)
    \/ \E t \in Writers : Unlock(t)
    \/ \E t \in Readers : AcquireR(t)
    \/ \E t \in Readers : ReadStep(t)
    \/ \E t \in Readers : RUnlock(t)

SpecLock == Init /\ [][NextLock]_vars

\* a call that has been made can take its next step: the lock it waits for is
\* free, or it is inside its body
CanProgress ==
    \/ \E t \in Writers : (thr[t].pc = "wait" /\ CanLock(lock)) \/ thr[t].pc = "write"
    \/ \E t \in Readers : (thr[t].pc = "wait" /\ CanRLock(lock)) \/ thr[t].pc = "read"

\* a call that has been made takes a step
Progressed == \E t \in Threads : thr[t].pc # "idle" /\ thr[t]' # thr[t]

\* the scheduler runs a goroutine as long as one can run: weak fairness of the
\* steps of the calls that have been made, with CanProgress for ENABLED; the
\* callers make finitely many calls
FairLock == SpecLock /\ ([]<>~CanProgress \/ []<><<Progressed>>_vars)

\* the lock is held by the threads inside an operation and by nobody else
LockMatchesCalls ==
    /\ lock.writer = NoThread => \A t \in Writers : thr[t].pc # "write"
    /\ lock.writer # NoThread => thr[lock.writer].pc = "write"
    /\ lock.readers = { t \in Readers : thr[t].pc = "read" }

\* C38: the lock is held exactly by the calls that are between their
\* acquisition and their return, whatever they return, so that it is free when
\* no call is running; and every call that has been made returns.
C38_LockReleased ==
    /\ [](LockMatchesCalls /\ (AllDone => lock = Unlocked))
    /\ \A t \in Threads : (thr[t].pc # "idle") ~> (thr[t].pc = "idle")

\* a write operation has returned an error, and a call is waiting for the lock
\* while another one holds it
C38_Witness ==
    /\ \E t \in Writers : thr[t].pc = "idle" /\ thr[t].res # <<>> /\ thr[t].res[1] # ErrNil
    /\ \E t \in Threads : thr[t].pc = "wait"
    /\ lock # Unlocked

----------------------------------------------------------------------------
(* Insertion order (TestStrangeMvCases adds a directory marker and then an  *)
(* entry below it)                                                          *)

\* AddFile of the entries of ms from first to last, stopping at the first error
RECURSIVE AddAll(_, _)
AddAll(t, ms) ==
    IF Len(ms) = 0 THEN [t |-> t, err |-> ErrNil]
    ELSE LET r == AddFileCore(t, Head(ms))
         IN  IF r.err # ErrNil THEN [t |-> r.t, err |-> r.err]
             ELSE AddAll(r.t, Tail(ms))

\* the orders in which a caller can add two or three entries
Orders(ms) ==
    IF Len(ms) = 2
    THEN { ms, <<ms[2], ms[1]>> }
    ELSE { <<ms[f[1]], ms[f[2]], ms[f[3]]>> :
              f \in { g \in [1..3 -> 1..3] : \A i, j \in 1..3 : g[i] = g[j] => i = j } }

\* what LsRecursive("/"), File and Stat return: paths and contents
Observed(t) ==
    [ls |-> { LsRecursive(t, Separator)[i] : i \in 1..Len(LsRecursive(t, Separator)) },
     file |-> [q \in ArgPaths |-> File(t, q)],
     stat |-> [q \in ArgPaths |-> Stat(t, q)]]

\* sequences of two or three calls that fit in the bound on calls
EntrySeqs ==
    { ms \in UNION { [1..n -> ValidEntries] : n \in 2..3 } : nops + Len(ms) <= MaxOps }

\* some entry of ms is an empty-folder marker at a directory above another one
MarkerAbove(ms) ==
    \E i, j \in 1..Len(ms) :
        /\ ms[i].Content.Type = MIMEDriveEntry
        /\ CleanPath(ms[i].Path) \in Ancestors(CleanPath(ms[j].Path))

----------------------------------------------------------------------------
(* CleanPath on its own: a caller passes any string of a few bytes and      *)
(* passes the result back in (TestCleanPath)                                *)

\* the bytes and the longest length of the strings passed to CleanPath
PathBytes == {"/", "a", "b"}
MaxPathLen == 5
CleanInputs == UNION { [1..n -> PathBytes] : n \in 0..MaxPathLen }

\* the number of times the caller applies CleanPath to what it holds
MaxCleans == 2

InitClean ==
    /\ root = <<>>
    /\ call \in { Call("input", p, ErrNil, FALSE, FALSE) : p \in CleanInputs }
    /\ nops = 0
    /\ pure = TRUE
    /\ added = {}
    /\ thr = [t \in Threads |-> Idle]
    /\ lock = Unlocked
    /\ hist = << <<>> >>

\* the caller replaces the string it holds by CleanPath of it
ApplyCleanPath ==
    /\ nops < MaxCleans
    /\ nops' = nops + 1
    /\ call' = Call("CleanPath", CleanPath(call.path), ErrNil, FALSE,
                    CleanPath(call.path) # call.path)
    /\ UNCHANGED <<root, pure, added, thr, lock, hist>>

SpecClean == InitClean /\ [][ApplyCleanPath]_vars

\* C40: CleanPath of a non-empty string begins with '/', holds no "//" and ends
\* with '/' only when it is "/"; CleanPath of a result of CleanPath is that
\* result; CleanPath of the empty string is the empty string
C40_CleanPathNormalForm ==
    [][ /\ call.path = <<>> => call'.path = <<>>
        /\ call.path # <<>> =>
              /\ call'.path # <<>>
              /\ call'.path[1] = SeparatorRune
              /\ ~Contains(call'.path, DoubleSeparator)
              /\ call'.path[Len(call'.path)] = SeparatorRune => call'.path = Separator
        /\ call.op = "CleanPath" => call'.path = call.path ]_vars

\* CleanPath has returned /a/b for a string that was not /a/b
C40_Witness ==
    /\ call.op = "CleanPath"
    /\ nops = 1
    /\ call.changed
    /\ call.path = <<"/", "a", "/", "b">>

====
